---- MODULE Spec2Model ----
(***************************************************************************)
(* ig_trading_bot: the trade lifecycle.                                    *)
(*                                                                         *)
(*   Spec    main.py main(): entry gate, order, its own trade_manager,      *)
(*           accounting, tidy-up; the broker may fail any call.            *)
(*   SpecTM  risk.py trade_manager, one call managing one deal, against a  *)
(*           broker that may fail any call, may close the position itself  *)
(*           (take-profit / stop hit) and a shutdown flag that may be set  *)
(*           at any moment.                                                *)
(*   SpecLedger  ledger.py Ledger: record_trade, midnight, a restart.     *)
(*   SpecCrash   the same with a process that can die inside record_trade. *)
(*   SpecStrategy  strategies: choose_direction over bar windows.          *)
(*   SpecSizing  sizing.py compute_size_and_distances over instrument      *)
(*           snapshots and capital values.                                 *)
(*   SpecTMLive  SpecTM with the manager's thread kept running.            *)
(*   SpecCache   ig_client.py recent_prices and its price cache.           *)
(*   SpecRequest ig_client.py _request: send, refresh-token, retry.        *)
(*   SpecClose   ig_client.py close_position_market and its three methods. *)
(*   SpecIndicators  indicators.py compute_atr_points and rsi_series.      *)
(*   SpecQuota   quota.py: the trading thread and the reporter thread in   *)
(*           the tracker's methods.                                        *)
(*                                                                         *)
(* Prices are integers (points).  Averages are kept as exact fractions:    *)
(* compute_atr_points is carried as ATR * period, ema as numerator and     *)
(* denominator, and every comparison of the source is cross-multiplied.    *)
(* None and NaN are the sentinels below; every real price is >= 0.         *)
(***************************************************************************)
EXTENDS Integers, Sequences, FiniteSets, TLC

None == 0 - 1
NaN == 0 - 2

\* ----- configuration (config.py; periods as set through the environment) -----
EMA_PERIOD == 3
ATR_PERIOD == 2
ATR_MIN_THRESHOLD == 3
SPREAD_MAX_POINTS == 3
\* BREAKEVEN_TRIGGER_RATIO = 0.5 = BREAKEVEN_TRIGGER_NUM / BREAKEVEN_TRIGGER_DEN
BREAKEVEN_TRIGGER_NUM == 1
BREAKEVEN_TRIGGER_DEN == 2

\* ----- bounds of the model -----
MaxBars == 3
MaxPolls == 3

\* ----- the bar windows the broker can answer with -----
Px(b, a, m) == [bid |-> b, ask |-> a, mid |-> m]
NoPx == Px(None, None, None)
MidBar(c, h, l) == [closePrice |-> Px(None, None, c),
                    highPrice |-> Px(None, None, h),
                    lowPrice |-> Px(None, None, l)]
BarSet ==
    { MidBar(14, 16, 12),
      MidBar(10, 10, 10),
      MidBar(6, 8, 4),
      \* bid/ask only, spread 4
      [closePrice |-> Px(8, 12, None), highPrice |-> Px(10, 14, None), lowPrice |-> Px(6, 10, None)],
      \* bid/ask only, spread 2
      [closePrice |-> Px(11, 13, None), highPrice |-> Px(13, 15, None), lowPrice |-> Px(9, 11, None)],
      \* no close price at all
      [closePrice |-> NoPx, highPrice |-> Px(None, None, 12), lowPrice |-> Px(None, None, 8)],
      \* no high price
      [closePrice |-> Px(None, None, 10), highPrice |-> NoPx, lowPrice |-> Px(None, None, 8)] }

Min2(a, b) == IF a <= b THEN a ELSE b
Max2(a, b) == IF a >= b THEN a ELSE b
Abs(a) == IF a >= 0 THEN a ELSE 0 - a

\* exact fractions n / d, d > 0
RECURSIVE GCD(_, _)
GCD(a, b) == IF b = 0 THEN a ELSE GCD(b, a % b)

Rat(n, d) == LET g == GCD(n, d) IN [n |-> n \div g, d |-> d \div g]
RLe(a, b) == a.n * b.d <= b.n * a.d
RMin(a, b) == IF RLe(a, b) THEN a ELSE b
RMax(a, b) == IF RLe(a, b) THEN b ELSE a
RMul(a, b) == Rat(a.n * b.n, a.d * b.d)
RDiv(a, b) == Rat(a.n * b.d, a.d * b.n)
Whole(k) == Rat(k, 1)
Hundredths(c) == Rat(c, 100)

\* round(x, 2) in hundredths.  A value halfway between two hundredths is a
\* binary float just below or just above the tie, so it goes either way.
Round2(r, tie_up) ==
    LET q == (r.n * 100) \div r.d
        twice == 2 * ((r.n * 100) % r.d)
    IN  IF twice < r.d THEN q
        ELSE IF twice > r.d THEN q + 1
        ELSE IF tie_up THEN q + 1 ELSE q

\* what recent_prices(epic, "MINUTE", num_points) can return: at most
\* num_points bars, possibly none
Windows(num_points) ==
    UNION { [1..n -> BarSet] : n \in 0..Min2(num_points, MaxBars) }

\* ----- indicators.py -----
bar_mid(x, key) ==
    LET d == x[key]
    IN  IF d.mid # None THEN d.mid
        ELSE IF d.bid # None /\ d.ask # None THEN (d.bid + d.ask) \div 2
        ELSE None

RECURSIVE extract_closes(_)
extract_closes(bs) ==
    IF Len(bs) = 0 THEN <<>>
    ELSE LET b == bs[Len(bs)]
             rest == extract_closes(SubSeq(bs, 1, Len(bs) - 1))
         IN  IF bar_mid(b, "closePrice") = None
                \/ bar_mid(b, "highPrice") = None
                \/ bar_mid(b, "lowPrice") = None
             THEN rest
             ELSE Append(rest, bar_mid(b, "closePrice"))

RECURSIVE ema_den(_, _)
ema_den(values, period) ==
    IF Len(values) <= 1 THEN 1
    ELSE (period + 1) * ema_den(SubSeq(values, 1, Len(values) - 1), period)

\* ema(values, period) = ema_num / ema_den, k = 2 / (period + 1)
RECURSIVE ema_num(_, _)
ema_num(values, period) ==
    IF Len(values) = 0 THEN NaN
    ELSE IF Len(values) = 1 THEN values[1]
    ELSE LET pre == SubSeq(values, 1, Len(values) - 1)
         IN  2 * values[Len(values)] * ema_den(pre, period)
               + (period - 1) * ema_num(pre, period)

ema_of_closes(bs, period) ==
    LET closes == extract_closes(bs)
    IN  IF Len(closes) = 0
        THEN [num |-> NaN, den |-> 1]
        ELSE [num |-> ema_num(closes, period), den |-> ema_den(closes, period)]

\* the true ranges compute_atr_points collects from bars[2..i]
RECURSIVE true_ranges(_, _)
true_ranges(bs, i) ==
    IF i < 2 THEN <<>>
    ELSE LET high == bar_mid(bs[i], "highPrice")
             low == bar_mid(bs[i], "lowPrice")
             prev_close == bar_mid(bs[i - 1], "closePrice")
             rest == true_ranges(bs, i - 1)
         IN  IF high = None \/ low = None \/ prev_close = None
             THEN rest
             ELSE Append(rest, Max2(high - low,
                                    Max2(Abs(high - prev_close), Abs(low - prev_close))))

RECURSIVE SumSeq(_)
SumSeq(s) == IF Len(s) = 0 THEN 0 ELSE s[Len(s)] + SumSeq(SubSeq(s, 1, Len(s) - 1))

\* period * ATR (the mean of the last `period` true ranges), or NaN
compute_atr_points(bs, period) ==
    IF Len(bs) < period + 1 THEN NaN
    ELSE LET trs == true_ranges(bs, Len(bs))
         IN  IF Len(trs) < period THEN NaN
             ELSE SumSeq(SubSeq(trs, Len(trs) - period + 1, Len(trs)))

latest_mid_and_spread(bs) ==
    IF Len(bs) = 0 THEN [mid |-> None, spread |-> None]
    ELSE LET cp == bs[Len(bs)].closePrice
             mid == IF cp.mid = None /\ cp.bid # None /\ cp.ask # None
                    THEN (cp.bid + cp.ask) \div 2
                    ELSE cp.mid
             spread == IF cp.bid # None /\ cp.ask # None THEN cp.ask - cp.bid ELSE None
         IN  [mid |-> mid, spread |-> spread]


\* ----- state -----
VARIABLES
    stop_event,          \* the shutdown flag (threading.Event)
    positions,           \* broker: the deal ids of the open positions
    trailing_stops,      \* broker: the deals on which a trailing amendment was accepted
    tm_pc,               \* risk.trade_manager: position in the function
    deal_id, is_long, entry_level, tp_pts,      \* its arguments
    trailing_activated,  \* its local flag
    pos_row,             \* local: the row of the tracked deal, or None
    bars,                \* local: the bar window of this iteration
    tm_ret,              \* what the call returned
    tm_calls,            \* number of broker calls made so far, per method
    m_pc,                \* main.main: position in the function
    realized_approx,     \* main: the session's realized amount
    trade_num,           \* main: number of orders attempted
    gate_mid,            \* main: last_mid, the mid price seen by the entry gate
    approx_favourable,   \* main.trade_manager: local flag, its return value
    exit_kind,           \* main.trade_manager: which exit its indicators call for
    next_deal,           \* broker: the next deal id it hands out
    day_net,             \* observer: the day's net P&L of the completed trades
    consec_losses,       \* observer: completed trades in a row without profit
    tidy,                \* main: what close_all_positions did (called, listed, attempts)
    confirm,             \* main: the outcome of the last open_market_position
    details,             \* the instrument snapshot the sizing was computed from
    sizing,              \* the result of compute_size_and_distances
    capital,             \* sizing.py: working capital, leverage, margin utilization
    sz_pc,               \* sizing.py: position of the sizing call
    ledger,              \* ledger.py: balance, day_start_balance, day, rows written
    today,               \* ledger.py: the calendar day of the clock
    state_json,          \* ledger.py: what state.json holds on disk
    csv_sum,             \* ledger.py: the sum of pnl_eur over the rows of trades.csv
    proc,                \* ledger.py: the process owning the Ledger is "up" or "down"
    window,              \* strategies: what recent_prices answered, bars or Failed
    strat,               \* strategies: the strategy choose_direction was called with
    signal,              \* strategies: what choose_direction returned
    clock,               \* the wall clock in Europe/Berlin: weekday, second of the day
    gate,                \* main: what the entry gate of this iteration saw
    ig_min_stop_points,  \* risk.trade_manager: its argument, in hundredths of a point
    amendment,           \* risk.trade_manager: the amendment sent in this iteration
    rp_cfg,              \* ig_client: PRICE_CACHE_ENABLED and the bar period of the key asked for
    price_cache,         \* ig_client: _price_cache[key], the number of bars held, or None
    price_last_fetch,    \* ig_client: _price_last_fetch[key]
    wall,                \* ig_client: time.time(), in seconds
    week_used,           \* quota: datapoints recorded in the last seven days
    served,              \* ig_client: what the last recent_prices call answered
    rq,                  \* ig_client: the _request call under way, its sends and its outcome
    cl,                  \* ig_client: the close_position_market call under way
    ind,                 \* indicators: what compute_atr_points and rsi_series gave for `window`
    qt,                  \* quota: the tracker's lock, counters and header map
    trd,                 \* quota: the trading thread's position in a tracker method
    rpt                  \* quota: the reporter thread's position and its snapshot

tmVars == <<tm_pc, deal_id, is_long, entry_level, tp_pts, trailing_activated,
            pos_row, bars, tm_ret, tm_calls>>
envVars == <<stop_event, positions, trailing_stops>>
mainVars == <<m_pc, realized_approx, trade_num, gate_mid, approx_favourable, exit_kind,
              next_deal, day_net, consec_losses, tidy, confirm, gate>>
sizeVars == <<details, sizing, capital, sz_pc>>
bookVars == <<ledger, today, state_json, csv_sum, proc>>
stratVars == <<window, strat, signal>>
clockVars == <<clock>>
amendVars == <<ig_min_stop_points, amendment>>
cacheVars == <<rp_cfg, price_cache, price_last_fetch, wall, week_used, served>>
requestVars == <<rq>>
closeVars == <<cl>>
indVars == <<ind>>
quotaVars == <<qt, trd, rpt>>
clientVars == <<cacheVars, requestVars, closeVars, indVars, quotaVars>>
restVars == <<sizeVars, bookVars, stratVars, clockVars, amendVars, clientVars>>
vars == <<envVars, tmVars, mainVars, restVars>>

\* close_all_positions has not run; no order has been submitted
NoTidy == [called |-> FALSE, listed |-> FALSE, attempts |-> {}]
NoConfirm == [raised |-> FALSE, status |-> "none", deal |-> None]
\* recent_prices raised, or was not called
NoFetch == [ok |-> FALSE, prices |-> <<>>]
\* recent_prices has not been called
NoServed == [source |-> "none", asked |-> 0, held |-> None, age |-> 0, remaining |-> 0]
WallStart == 1000
\* the client is not in use
CacheIdle ==
    /\ rp_cfg = [enabled |-> TRUE, period |-> 60]
    /\ price_cache = None
    /\ price_last_fetch = 0
    /\ wall = WallStart
    /\ week_used = 0
    /\ served = NoServed
\* no _request has been made
NoRequest == [pc |-> "idle", calls |-> 0, method |-> "none", sent |-> 0, refreshed |-> 0,
              first |-> None, rr |-> None, r |-> None, out |-> None, token |-> 0,
              recorded |-> 0]
\* close_position_market has not been called
NoClose == [pc |-> "idle", known |-> FALSE, tried |-> <<>>, out |-> [kind |-> "none", ref |-> 0]]
\* the indicators have not been computed
NoIndicators == [pc |-> "call", atr |-> NaN, rsi |-> <<>>]
\* a new tracker, and no thread in it
\* calls: stamps ever added to a window; trimmed: those dropped as older than
\* 60 s; hdr: the call whose response headers the map holds
NewTracker == [lock |-> "free", calls |-> 0, trimmed |-> 0, week |-> 0, hdr |-> 0, dirty |-> FALSE]
NoSnapshot == [calls |-> None, used |-> None, week |-> None, hdr |-> None]
TraderOut == [pc |-> "out", op |-> "none", n |-> 0, done |-> 0, snap |-> NoSnapshot]
ReporterOut == [pc |-> "test", snap |-> NoSnapshot, logged |-> 0]
QuotaIdle == qt = NewTracker /\ trd = TraderOut /\ rpt = ReporterOut
ClientIdle == CacheIdle /\ rq = NoRequest /\ cl = NoClose /\ ind = NoIndicators /\ QuotaIdle

\* no amendment has been sent in this iteration
NoAmendment == [distance |-> None, step |-> None, stop_level |-> None]
\* the entry gate has not looked at a bar window in this iteration
NoGate == [seen |-> FALSE, empty |-> FALSE, atr_nan |-> FALSE, no_mid |-> FALSE,
           atr_low |-> FALSE, spread_high |-> FALSE]
\* Monday 10:00:00, the clock at the start of a run
StartOfRun == [weekday |-> 0, second |-> 36000]

CallNames == {"list_positions", "recent_prices", "update_position", "close_position_market"}
Called(name) == [tm_calls EXCEPT ![name] = @ + 1]

Running == [kind |-> "running", move_pts |-> 0, exit_mid |-> 0]
\* return float(move_pts), float(last_mid)
Pair(m, x) == [kind |-> "pair", move_pts |-> m, exit_mid |-> x]
\* return None, None
NullPair == [kind |-> "null_pair", move_pts |-> 0, exit_mid |-> 0]
\* the function ends without a return statement: the call evaluates to None
BareNone == [kind |-> "None", move_pts |-> 0, exit_mid |-> 0]

\* slip: the move of a short computed as that of a long
MovePts_mut(long, entry, last_mid) == last_mid - entry

\* move_pts = (last_mid - entry_level) if is_long else (entry_level - last_mid)
MovePts(long, entry, last_mid) == IF long THEN last_mid - entry ELSE entry - last_mid

\* slip: the math.isnan(atr) test forgotten
IndicatorsUndefined_mut(bs) ==
    \/ Len(bs) = 0
    \/ latest_mid_and_spread(bs).mid = None
    \/ ema_of_closes(bs, EMA_PERIOD).num = NaN

\* risk.py:69 and :76, the polls on which nothing is decided
IndicatorsUndefined(bs) ==
    \/ Len(bs) = 0
    \/ latest_mid_and_spread(bs).mid = None
    \/ compute_atr_points(bs, ATR_PERIOD) = NaN
    \/ ema_of_closes(bs, EMA_PERIOD).num = NaN

\* risk.py:83  move_pts >= tp_pts * BREAKEVEN_TRIGGER_RATIO
BreakevenReached(move, tp) == move * BREAKEVEN_TRIGGER_DEN >= tp * BREAKEVEN_TRIGGER_NUM

\* slip: the side of the trade is not looked at
EmaInvalidated_mut(long, bs) ==
    LET e == ema_of_closes(bs, EMA_PERIOD)
        last_mid == latest_mid_and_spread(bs).mid
    IN  last_mid * e.den < e.num

\* risk.py:102  (is_long and last_mid < ema20) or ((not is_long) and last_mid > ema20)
EmaInvalidated(long, bs) ==
    LET e == ema_of_closes(bs, EMA_PERIOD)
        last_mid == latest_mid_and_spread(bs).mid
    IN  \/ long /\ last_mid * e.den < e.num
        \/ ~long /\ last_mid * e.den > e.num

\* risk.py:117  (atr < ATR_MIN_THRESHOLD) or (spread is not None and spread > SPREAD_MAX_POINTS)
VolSpreadExit(bs) ==
    LET spread == latest_mid_and_spread(bs).spread
    IN  \/ compute_atr_points(bs, ATR_PERIOD) < ATR_MIN_THRESHOLD * ATR_PERIOD
        \/ spread # None /\ spread > SPREAD_MAX_POINTS

\* slip: keep polling for the broker's confirmation after the close
AfterCloseInstruction_mut == "sleep"

\* where trade_manager goes once it has given the close instruction
AfterCloseInstruction == "done"

\* slip: `continue` instead of `return` when the position has disappeared
AfterDisappearance_mut == "sleep"

\* `return` on each path of the disappearance branch
AfterDisappearance == "done"

\* slip: the `not trailing_activated` test forgotten
ShouldAmend_mut(flag, move, tp) == BreakevenReached(move, tp)

\* risk.py:83  the condition of the breakeven + trailing amendment
ShouldAmend(flag, move, tp) == ~flag /\ BreakevenReached(move, tp)

\* slip: the `continue` after a failed positions poll forgotten
AfterFailedPoll_mut == "bars"

\* risk.py:38-41: list_positions raised, sleep and start the next iteration
AfterFailedPoll == "sleep"

\* trailing_activated = True only after update_position returned
TrailingAfterUpdate(ok, flag) == IF ok THEN TRUE ELSE flag

\* ----- risk.trade_manager -----

\* slip: the flag is not looked at
StopRequested_mut(flag) == FALSE

\* risk.py:35  stop_event.is_set()
StopRequested(flag) == flag

\* while not stop_event.is_set():  (falling out of the loop ends the function)
TM_Loop ==
    /\ tm_pc = "loop"
    /\ IF StopRequested(stop_event)
       THEN tm_pc' = "done" /\ tm_ret' = BareNone
       ELSE tm_pc' = "poll" /\ UNCHANGED tm_ret
    /\ UNCHANGED <<envVars, deal_id, is_long, entry_level, tp_pts, trailing_activated,
                   pos_row, bars, tm_calls>>
    /\ UNCHANGED <<mainVars, restVars>>

\* positions = ig.list_positions(); look the deal up
TM_ListPositions ==
    /\ tm_pc = "poll"
    /\ tm_calls["list_positions"] < MaxPolls
    /\ tm_calls' = Called("list_positions")
    /\ \E ok \in BOOLEAN :
         IF ok
         THEN /\ pos_row' = IF deal_id \in positions THEN deal_id ELSE None
              /\ tm_pc' = IF deal_id \in positions THEN "bars" ELSE "gone"
         ELSE /\ pos_row' = None
              /\ tm_pc' = AfterFailedPoll
    /\ UNCHANGED <<envVars, deal_id, is_long, entry_level, tp_pts, trailing_activated,
                   bars, tm_ret>>
    /\ UNCHANGED <<mainVars, restVars>>

\* the position has disappeared: infer the outcome from the latest tick
TM_Gone ==
    /\ tm_pc = "gone"
    /\ tm_calls' = Called("recent_prices")
    /\ \/ tm_ret' = NullPair /\ UNCHANGED bars   \* recent_prices raised
       \/ \E w \in Windows(2) :
            LET last_mid == latest_mid_and_spread(w).mid
            IN  /\ bars' = w
                /\ tm_ret' = IF last_mid = None
                              THEN NullPair
                              ELSE Pair(MovePts(is_long, entry_level, last_mid), last_mid)
    /\ tm_pc' = AfterDisappearance
    /\ UNCHANGED <<envVars, deal_id, is_long, entry_level, tp_pts, trailing_activated,
                   pos_row>>
    /\ UNCHANGED <<mainVars, restVars>>

\* bars = ig.recent_prices(...); the indicators; which branch comes next
TM_RecentPrices ==
    /\ tm_pc = "bars"
    /\ tm_calls' = Called("recent_prices")
    /\ \/ tm_pc' = "sleep" /\ UNCHANGED bars      \* recent_prices raised
       \/ \E w \in Windows(MaxBars) :
            /\ bars' = w
            /\ tm_pc' = IF IndicatorsUndefined(w) THEN "sleep"
                        ELSE IF ShouldAmend(trailing_activated,
                                     MovePts(is_long, entry_level, latest_mid_and_spread(w).mid),
                                     tp_pts)
                             THEN "amend"
                             ELSE "exits"
    /\ UNCHANGED <<envVars, deal_id, is_long, entry_level, tp_pts, trailing_activated,
                   pos_row, tm_ret>>
    /\ UNCHANGED <<mainVars, restVars>>

\* config.py: TRAIL_DIST_ATR_MULT = 0.805, TRAIL_STEP_ATR_MULT = 0.333,
\* MIN_TRAIL_STEP_POINTS = 0.1 and BREAKEVEN_OFFSET_POINTS = 0.1 (hundredths)
TRAIL_DIST_ATR_MULT_NUM == 161
TRAIL_DIST_ATR_MULT_DEN == 200
TRAIL_STEP_ATR_MULT_NUM == 333
TRAIL_STEP_ATR_MULT_DEN == 1000
MIN_TRAIL_STEP_POINTS == 10
BREAKEVEN_OFFSET_POINTS == 10

\* the broker's minimum stop distance, in hundredths of a point
MinStops == {550}

\* atr, from period * atr
AtrOf(bs) == Rat(compute_atr_points(bs, ATR_PERIOD), ATR_PERIOD)

\* slip: the floor at the broker's minimum left out
trail_dist_mut(atr, min_stop) ==
    RMul(atr, Rat(TRAIL_DIST_ATR_MULT_NUM, TRAIL_DIST_ATR_MULT_DEN))

\* risk.py:84  max(atr * TRAIL_DIST_ATR_MULT, ig_min_stop_points)
trail_dist(atr, min_stop) ==
    RMax(RMul(atr, Rat(TRAIL_DIST_ATR_MULT_NUM, TRAIL_DIST_ATR_MULT_DEN)), Hundredths(min_stop))

\* risk.py:85  max(atr * TRAIL_STEP_ATR_MULT, MIN_TRAIL_STEP_POINTS)
trail_step(atr) ==
    RMax(RMul(atr, Rat(TRAIL_STEP_ATR_MULT_NUM, TRAIL_STEP_ATR_MULT_DEN)),
         Hundredths(MIN_TRAIL_STEP_POINTS))

\* risk.py:86  entry_level +/- BREAKEVEN_OFFSET_POINTS
breakeven(long, entry) ==
    IF long THEN Rat(100 * entry + BREAKEVEN_OFFSET_POINTS, 100)
    ELSE Rat(100 * entry - BREAKEVEN_OFFSET_POINTS, 100)

\* risk.py:88-94, the three values as sent: round(x, 2), in hundredths
Amendment(bs, long, entry, min_stop, tie_dist, tie_step) ==
    [distance |-> Round2(trail_dist(AtrOf(bs), min_stop), tie_dist),
     step |-> Round2(trail_step(AtrOf(bs)), tie_step),
     stop_level |-> Round2(breakeven(long, entry), TRUE)]

\* ig.update_position(deal_id, trailing_stop=True, ...)
TM_UpdatePosition ==
    /\ tm_pc = "amend"
    /\ tm_calls' = Called("update_position")
    /\ \E tie_dist \in BOOLEAN, tie_step \in BOOLEAN :
         amendment' = Amendment(bars, is_long, entry_level, ig_min_stop_points,
                                tie_dist, tie_step)
    /\ \E ok \in BOOLEAN :
         /\ ok => deal_id \in positions
         /\ trailing_stops' = IF ok THEN trailing_stops \cup {deal_id} ELSE trailing_stops
         /\ trailing_activated' = TrailingAfterUpdate(ok, trailing_activated)
    /\ tm_pc' = "exits"
    /\ UNCHANGED <<stop_event, positions, deal_id, is_long, entry_level, tp_pts, pos_row, bars, tm_ret>>
    /\ UNCHANGED <<mainVars, sizeVars, bookVars, stratVars, clockVars, clientVars, ig_min_stop_points>>

\* slip: a close request that raised gives (None, None)
ReturnAfterClose_mut(ok, move_pts, last_mid) == IF ok THEN Pair(move_pts, last_mid) ELSE NullPair

\* risk.py:114 and :128, return float(move_pts), float(last_mid) after the try/except
ReturnAfterClose(ok, move_pts, last_mid) == Pair(move_pts, last_mid)

\* the position a net-off order opens when it finds nothing to net off
NetOffDeal == 2

\* what the broker holds after close_position_market. ig_client.py:310-320:
\* the first method is a market order of the opposite direction and the same
\* size, forceOpen false, which names the epic but no deal: it closes the
\* tracked position while that is open, and is an order like any other,
\* refused or filled, once it is gone. DELETE and the override name the deal.
PositionsAfterClose(ps, d, ok, filled) ==
    IF ~ok THEN ps
    ELSE IF d \in ps THEN ps \ {d}
    ELSE IF filled THEN ps \cup {NetOffDeal}
    ELSE ps

\* ig.close_position_market(...) inside try/except, then the return
CloseAndReturn ==
    /\ tm_calls' = Called("close_position_market")
    /\ \E ok \in BOOLEAN, filled \in BOOLEAN :
         /\ positions' = PositionsAfterClose(positions, deal_id, ok, filled)
         /\ trailing_stops' = IF ok THEN trailing_stops \ {deal_id} ELSE trailing_stops
         /\ tm_ret' = LET last_mid == latest_mid_and_spread(bars).mid
                      IN  ReturnAfterClose(ok, MovePts(is_long, entry_level, last_mid), last_mid)
    /\ tm_pc' = AfterCloseInstruction
    /\ UNCHANGED <<stop_event, deal_id, is_long, entry_level, tp_pts,
                   trailing_activated, pos_row, bars>>
    /\ UNCHANGED <<mainVars, restVars>>

\* EMA invalidation close
TM_EmaClose ==
    /\ tm_pc = "exits"
    /\ EmaInvalidated(is_long, bars)
    /\ CloseAndReturn

\* Vol/spread deterioration close
TM_VolClose ==
    /\ tm_pc = "exits"
    /\ ~EmaInvalidated(is_long, bars)
    /\ VolSpreadExit(bars)
    /\ CloseAndReturn

\* neither exit applies
TM_NoExit ==
    /\ tm_pc = "exits"
    /\ ~EmaInvalidated(is_long, bars)
    /\ ~VolSpreadExit(bars)
    /\ tm_pc' = "sleep"
    /\ UNCHANGED <<envVars, deal_id, is_long, entry_level, tp_pts, trailing_activated,
                   pos_row, bars, tm_ret, tm_calls>>
    /\ UNCHANGED <<mainVars, restVars>>

\* time.sleep(POLL_POSITIONS_SEC), back to the loop test; pos_row and bars are
\* assigned again before their next use
TM_Sleep ==
    /\ tm_pc = "sleep"
    /\ tm_pc' = "loop"
    /\ pos_row' = None
    /\ bars' = <<>>
    /\ amendment' = NoAmendment
    /\ UNCHANGED <<envVars, deal_id, is_long, entry_level, tp_pts, trailing_activated,
                   tm_ret, tm_calls>>
    /\ UNCHANGED <<mainVars, sizeVars, bookVars, stratVars, clockVars, clientVars, ig_min_stop_points>>

\* ----- environment -----

\* stop_event.set()
SetStop ==
    /\ ~stop_event
    /\ stop_event' = TRUE
    /\ UNCHANGED <<positions, trailing_stops, tmVars, mainVars, restVars>>

\* the broker closes a position itself: take-profit, stop or trailing stop hit
BrokerCloses ==
    /\ \E d \in positions :
         /\ positions' = positions \ {d}
         /\ trailing_stops' = trailing_stops \ {d}
    /\ UNCHANGED <<stop_event, tmVars, mainVars, restVars>>

EntryLevels == {10}
TpPoints == {4}

InitTM ==
    /\ stop_event = FALSE
    /\ positions = {1}
    /\ trailing_stops = {}
    /\ deal_id = 1
    /\ is_long \in BOOLEAN
    /\ entry_level \in EntryLevels
    /\ tp_pts \in TpPoints
    /\ tm_pc = "loop"
    /\ trailing_activated = FALSE
    /\ pos_row = None
    /\ bars = <<>>
    /\ tm_ret = Running
    /\ tm_calls = [n \in CallNames |-> 0]
    /\ m_pc = "none"
    /\ realized_approx = 0
    /\ trade_num = 0
    /\ gate_mid = None
    /\ approx_favourable = FALSE
    /\ exit_kind = "none"
    /\ next_deal = 2
    /\ day_net = 0
    /\ consec_losses = 0
    /\ tidy = NoTidy
    /\ confirm = NoConfirm
    /\ details = None
    /\ sizing = None
    /\ capital = None
    /\ sz_pc = "idle"
    /\ ledger = None
    /\ today = 0
    /\ state_json = None
    /\ csv_sum = 0
    /\ proc = "down"
    /\ window = NoFetch
    /\ strat = "none"
    /\ signal = "none"
    /\ clock = StartOfRun
    /\ gate = NoGate
    /\ ig_min_stop_points \in MinStops
    /\ amendment = NoAmendment
    /\ ClientIdle

NextTM ==
    \/ TM_Loop
    \/ TM_ListPositions
    \/ TM_Gone
    \/ TM_RecentPrices
    \/ TM_UpdatePosition
    \/ TM_EmaClose
    \/ TM_VolClose
    \/ TM_NoExit
    \/ TM_Sleep
    \/ SetStop
    \/ BrokerCloses

SpecTM == InitTM /\ [][NextTM]_vars

\* a step of the manager
TMStep ==
    \/ TM_Loop \/ TM_ListPositions \/ TM_Gone \/ TM_RecentPrices \/ TM_UpdatePosition
    \/ TM_EmaClose \/ TM_VolClose \/ TM_NoExit \/ TM_Sleep

\* the manager is at a statement it can execute: anywhere before its return,
\* but for the poll the bound MaxPolls cuts off
TMPcs == {"loop", "poll", "gone", "bars", "amend", "exits", "sleep", "done"}
TMRunning ==
    /\ tm_pc \in TMPcs \ {"done"}
    /\ ~(tm_pc = "poll" /\ tm_calls["list_positions"] >= MaxPolls)

\* the manager's steps are the steps that move tm_pc (TMStepsMoveTheManager),
\* and one is possible exactly when TMRunning
TMTurn == TMRunning /\ tm_pc' \in TMPcs \ {tm_pc}

TMStepsMoveTheManager == [][(tm_pc' # tm_pc) <=> TMStep]_vars

\* the manager's thread keeps running: every broker call it makes returns or
\* raises (the HTTP calls carry timeouts) and time.sleep ends; the shutdown
\* flag and the broker's own closes are not forced to happen
SpecTMLive == InitTM /\ [][NextTM]_vars /\ WF_tm_pc(TMTurn)

TypeOK_TM ==
    /\ tm_pc \in {"loop", "poll", "gone", "bars", "amend", "exits", "sleep", "done"}
    /\ tm_ret.kind \in {"running", "pair", "null_pair", "None"}
    /\ trailing_activated \in BOOLEAN


\* the per-trade target and the stop / take-profit multiplier (config)
PER_TRADE_TARGET_EUR == 1
STOP_TO_LIMIT_MULTIPLIER == 3


\* ============================ ledger.py ============================
\* Ledger: balance, day_start_balance and day are persisted in state.json
\* after every mutation, one row per trade is appended to trades.csv.  Days
\* are numbered; amounts are whole account-currency units.

START_BALANCE_DEFAULT == 500

MaxRecords == 3
MaxDays == 3
PnlValues == {0 - 3, 0, 1}

\* no state.json: balance = start_balance_default, day = today
NewLedger(day) ==
    [balance |-> START_BALANCE_DEFAULT, day_start_balance |-> START_BALANCE_DEFAULT,
     day |-> day, rows |-> 0]

\* ledger.py:58-62, "New day? Reset the anchor"
ResetAnchor(l, now) ==
    IF l.day # now
    THEN [l EXCEPT !.day = now, !.day_start_balance = l.balance]
    ELSE l

\* slip: no try/except around the read, whatever was parsed is used
load_or_init_state_mut(l, now, readable) == ResetAnchor(l, now)

\* _load_or_init_state when state.json exists: the persisted state, or the
\* defaults when it cannot be read; then the anchor of a new day
load_or_init_state(l, now, readable) ==
    IF readable
    THEN ResetAnchor(l, now)
    ELSE ResetAnchor([l EXCEPT !.balance = START_BALANCE_DEFAULT, !.day = now,
                               !.day_start_balance = START_BALANCE_DEFAULT], now)

\* slip: the row is written but the balance is left as it was
record_trade_mut(l, pnl) == [l EXCEPT !.rows = l.rows + 1]

\* record_trade: balance += pnl, one row appended, state flushed; the day and
\* the anchor are not looked at
record_trade(l, pnl) == [l EXCEPT !.balance = l.balance + pnl, !.rows = l.rows + 1]

\* day_net()
Ledger_day_net(l) == l.balance - l.day_start_balance

\* _flush_state: state.json rewritten from the object
flush_state(l) ==
    [readable |-> TRUE, balance |-> l.balance, day |-> l.day,
     day_start_balance |-> l.day_start_balance]

\* state.json opened with "w" (truncated) and not written to the end, or not
\* a JSON object of numbers: json.load / float() raise on it
Unreadable == [readable |-> FALSE, balance |-> 0, day |-> 0, day_start_balance |-> 0]

\* the fields _load_or_init_state reads from state.json
Persisted(l, st) ==
    [l EXCEPT !.balance = st.balance, !.day = st.day,
              !.day_start_balance = st.day_start_balance]

\* ledger.py:58-62 flushes only when the day has changed; the reset of a
\* corrupt state is not written back
FlushAfterLoad(st, now, l) == IF st.readable /\ st.day # now THEN flush_state(l) ELSE st

\* where the process can die inside record_trade: before the row is appended,
\* between the append and the flush, inside the flush
CrashPoints == {"before_append", "after_append", "in_flush"}

\* the trading run at rest: the ledger and the sizer are exercised on their own
TradingIdle ==
    /\ stop_event = FALSE
    /\ positions = {}
    /\ trailing_stops = {}
    /\ deal_id = 0
    /\ is_long = TRUE
    /\ entry_level = 0
    /\ tp_pts = 0
    /\ tm_pc = "idle"
    /\ trailing_activated = FALSE
    /\ pos_row = None
    /\ bars = <<>>
    /\ tm_ret = Running
    /\ tm_calls = [n \in CallNames |-> 0]
    /\ m_pc = "none"
    /\ realized_approx = 0
    /\ trade_num = 0
    /\ gate_mid = None
    /\ approx_favourable = FALSE
    /\ exit_kind = "none"
    /\ next_deal = 1
    /\ day_net = 0
    /\ consec_losses = 0
    /\ tidy = NoTidy
    /\ confirm = NoConfirm

\* record_trade(trade) from its first line to the end of _flush_state
L_RecordTrade ==
    /\ proc = "up"
    /\ ledger.rows < MaxRecords
    /\ \E pnl \in PnlValues :
         /\ ledger' = record_trade(ledger, pnl)
         /\ csv_sum' = csv_sum + pnl
         /\ state_json' = flush_state(ledger')
    /\ UNCHANGED <<today, proc, envVars, tmVars, mainVars, sizeVars, stratVars, clockVars, amendVars, clientVars>>

\* midnight (UTC) passes
L_Midnight ==
    /\ today < MaxDays
    /\ today' = today + 1
    /\ UNCHANGED <<ledger, state_json, csv_sum, proc, envVars, tmVars, mainVars, sizeVars, stratVars, clockVars, amendVars, clientVars>>

\* the process is started (again): Ledger() reads state.json
L_Restart ==
    /\ ledger' = load_or_init_state(Persisted(ledger, state_json), today, state_json.readable)
    /\ state_json' = FlushAfterLoad(state_json, today, ledger')
    /\ proc' = "up"
    /\ UNCHANGED <<today, csv_sum, envVars, tmVars, mainVars, sizeVars, stratVars, clockVars, amendVars, clientVars>>

\* the process dies inside record_trade; the object is lost, the files stay
L_Crash ==
    /\ proc = "up"
    /\ ledger.rows < MaxRecords
    /\ \E pnl \in PnlValues, at \in CrashPoints :
         /\ ledger' = IF at = "before_append" THEN ledger
                       ELSE [ledger EXCEPT !.rows = ledger.rows + 1]
         /\ csv_sum' = IF at = "before_append" THEN csv_sum ELSE csv_sum + pnl
         /\ state_json' = IF at = "in_flush" THEN Unreadable ELSE state_json
    /\ proc' = "down"
    /\ UNCHANGED <<today, envVars, tmVars, mainVars, sizeVars, stratVars, clockVars, amendVars, clientVars>>

InitLedger ==
    /\ TradingIdle
    /\ today = 1
    /\ ledger = NewLedger(today)
    /\ state_json = flush_state(ledger)
    /\ csv_sum = 0
    /\ proc = "up"
    /\ window = NoFetch
    /\ strat = "none"
    /\ signal = "none"
    /\ clock = StartOfRun
    /\ gate = NoGate
    /\ ig_min_stop_points = 0
    /\ amendment = NoAmendment
    /\ ClientIdle
    /\ details = None
    /\ sizing = None
    /\ capital = None
    /\ sz_pc = "idle"

NextLedger ==
    \/ L_RecordTrade
    \/ L_Midnight
    \/ L_Restart

SpecLedger == InitLedger /\ [][NextLedger]_vars

NextCrash ==
    \/ L_RecordTrade
    \/ L_Midnight
    \/ L_Restart
    \/ L_Crash

\* the ledger with a process that can die inside record_trade
SpecCrash == InitLedger /\ [][NextCrash]_vars

TypeOK_Ledger ==
    /\ ledger.rows \in 0..MaxRecords
    /\ ledger.day \in 1..MaxDays
    /\ today \in 1..MaxDays
    /\ ledger.day <= today


\* ============================ sizing.py ============================
\* compute_size_and_distances in exact arithmetic.  Sizes and distances of an
\* instrument snapshot and of a result are in hundredths (the two decimals of
\* the result); prices, capital and the target are whole units; intermediate
\* values are fractions [n, d].

\* how the three roundings of one result fall at a tie
Ties == [size : BOOLEAN, limit : BOOLEAN, stop : BOOLEAN]

\* _first_margin_rate with a first margin band in percent
first_margin_rate(instr) == Rat(instr.margin_pct, 100)

\* _estimate_margin, _estimate_exposure
estimate_margin(price, size, contract_size, margin_rate) ==
    RMul(RMul(Whole(price * contract_size), size), margin_rate)
estimate_exposure(price, size, contract_size) == RMul(Whole(price * contract_size), size)

\* sizing.py:132-133
exposure_cap(cap) == RMax(Whole(0), Whole(cap.working_capital * cap.effective_leverage))
margin_cap(cap) ==
    RMax(Whole(0), RMul(Whole(cap.working_capital), Rat(cap.margin_utilization_pct, 100)))

\* sizing.py:135-145
size_from_margin(c, det) ==
    LET den == RMul(Whole(det.price * det.contract_size), first_margin_rate(det))
    IN  IF c.n <= 0 THEN Whole(0) ELSE IF den.n <= 0 THEN Whole(0) ELSE RDiv(c, den)
size_from_exposure(c, det) ==
    LET den == Whole(det.price * det.contract_size)
    IN  IF c.n <= 0 THEN Whole(0) ELSE IF den.n <= 0 THEN Whole(0) ELSE RDiv(c, den)

\* sizing.py:147-149
max_affordable_size(det, cap) ==
    RMax(Whole(0), RMin(RMin(size_from_margin(margin_cap(cap), det),
                             size_from_exposure(exposure_cap(cap), det)),
                        Hundredths(det.max_size)))

\* sizing.py:152-154; the caps and the estimates lie on a grid far coarser
\* than the tolerance of 1e-9
MinSizeBreachesCaps_mut(det, cap) ==
    ~RLe(estimate_margin(det.price, Hundredths(det.min_size), det.contract_size,
                         first_margin_rate(det)), margin_cap(cap))

MinSizeBreachesCaps(det, cap) ==
    \/ ~RLe(estimate_margin(det.price, Hundredths(det.min_size), det.contract_size,
                            first_margin_rate(det)), margin_cap(cap))
    \/ ~RLe(estimate_exposure(det.price, Hundredths(det.min_size), det.contract_size),
            exposure_cap(cap))

\* sizing.py:162
ChooseSize_mut(min_size, affordable) == min_size

ChooseSize(min_size, affordable) == RMin(RMax(min_size, affordable), affordable)

\* sizing.py:170, mult = max(1.0, float(STOP_TO_LIMIT_MULTIPLIER))
StopMultiplier_mut(m) == Rat(1, 2)

StopMultiplier(m) == RMax(Whole(1), Whole(m))

Infeasible == [size |-> 0, limit_distance |-> 0, stop_distance |-> 0, ok |-> FALSE]
NoSizing == [size |-> None, limit_distance |-> None, stop_distance |-> None, ok |-> FALSE]

\* sizing.py:97-180 (the currency of the result is left out)
compute_size_and_distances(det, target_eur, cap, stop_to_limit, ties) ==
    IF MinSizeBreachesCaps(det, cap)
    THEN Infeasible
    ELSE LET size == ChooseSize(Hundredths(det.min_size), max_affordable_size(det, cap))
             pips_needed == RDiv(Whole(target_eur), RMul(Whole(det.pip_value), size))
             points_needed == RMul(pips_needed, Whole(det.points_per_pip))
             limit_distance == RMax(Hundredths(det.min_distance), points_needed)
             stop_distance == RMax(Hundredths(det.min_distance),
                                   RMul(limit_distance, StopMultiplier(stop_to_limit)))
         IN  [size |-> Round2(size, ties.size),
              limit_distance |-> Round2(limit_distance, ties.limit),
              stop_distance |-> Round2(stop_distance, ties.stop), ok |-> TRUE]

MaxCapital == 12

\* instrument snapshots: offer price, dealing rules, margin band, pip
SizingDetails ==
    [price : {20, 40}, contract_size : {1}, margin_pct : {5, 50},
     min_size : {10, 50, 100}, max_size : {100, 1000}, min_distance : {10, 400},
     pip_value : {1, 2}, points_per_pip : {1, 2}]
Capitals ==
    [working_capital : 0..MaxCapital, effective_leverage : {5},
     margin_utilization_pct : {50, 100}]

SZ_Compute ==
    /\ sz_pc = "call"
    /\ \E ties \in Ties :
         sizing' = compute_size_and_distances(details, PER_TRADE_TARGET_EUR, capital,
                                              STOP_TO_LIMIT_MULTIPLIER, ties)
    /\ sz_pc' = "done"
    /\ UNCHANGED <<details, capital, envVars, tmVars, mainVars, bookVars, stratVars, clockVars, amendVars, clientVars>>

InitSizing ==
    /\ TradingIdle
    /\ details \in SizingDetails
    /\ capital \in Capitals
    /\ sizing = NoSizing
    /\ sz_pc = "call"
    /\ today = 1
    /\ ledger = NewLedger(today)
    /\ state_json = flush_state(ledger)
    /\ csv_sum = 0
    /\ proc = "up"
    /\ window = NoFetch
    /\ strat = "none"
    /\ signal = "none"
    /\ clock = StartOfRun
    /\ gate = NoGate
    /\ ig_min_stop_points = 0
    /\ amendment = NoAmendment
    /\ ClientIdle

NextSizing == SZ_Compute

SpecSizing == InitSizing /\ [][NextSizing]_vars

TypeOK_Sizing ==
    /\ sz_pc \in {"call", "done"}
    /\ sz_pc = "done" => sizing.size \in Nat /\ sizing.limit_distance \in Nat


\* ============================ strategies ============================
\* choose_direction and the strategies it routes to.  The periods are the
\* ones of config.py set through the environment; an average is carried as
\* period * average, an oscillator value as an exact fraction.

MA_FAST == 1
MA_SLOW == 2
MA_TREND == 3
RSI_PERIOD == 2
RSI_LO == 30
RSI_HI == 70
STO_K_PERIOD == 2
STO_D_PERIOD == 2
STO_LO == 20
STO_HI == 80

MaxLookback == 7

StrategyBars ==
    { MidBar(1, 2, 1),
      MidBar(2, 3, 1),
      [closePrice |-> Px(3, 5, None), highPrice |-> Px(4, 6, None), lowPrice |-> Px(2, 4, None)],
      \* no low price: extract_ohlc skips the bar
      [closePrice |-> Px(None, None, 3), highPrice |-> Px(None, None, 3), lowPrice |-> NoPx] }

StrategyWindows == UNION { [1..n -> StrategyBars] : n \in 0..MaxLookback }

\* what ig.recent_prices(...) gives a strategy: it raises, or a bar window
FetchResults ==
    {NoFetch} \cup { [ok |-> TRUE, prices |-> w] : w \in Windows(3) \cup StrategyWindows }

Front(s) == SubSeq(s, 1, Len(s) - 1)
RLt(a, b) == a.n * b.d < b.n * a.d
RAdd(a, b) == Rat(a.n * b.d + b.n * a.d, a.d * b.d)

\* indicators.extract_ohlc: the bars that have a close, a high and a low
RECURSIVE extract_ohlc(_)
extract_ohlc(bs) ==
    IF Len(bs) = 0 THEN <<>>
    ELSE LET b == bs[Len(bs)]
             c == bar_mid(b, "closePrice")
             h == bar_mid(b, "highPrice")
             l == bar_mid(b, "lowPrice")
             rest == extract_ohlc(Front(bs))
         IN  IF c = None \/ h = None \/ l = None
             THEN rest
             ELSE Append(rest, [close |-> c, high |-> h, low |-> l])

Closes(o) == [i \in 1..Len(o) |-> o[i].close]

\* period * sma(values, period), or NaN
sma(values, period) ==
    IF Len(values) < period THEN NaN
    ELSE SumSeq(SubSeq(values, Len(values) - period + 1, Len(values)))

\* ma200_now > ma200_prev, False when either is NaN
trend_up(closes, ma_trend) ==
    LET now == sma(closes, ma_trend)
        prev == sma(Front(closes), ma_trend)
    IN  now # NaN /\ prev # NaN /\ now > prev

\* ma200_now < ma200_prev, False when either is NaN
trend_down(closes, ma_trend) ==
    LET now == sma(closes, ma_trend)
        prev == sma(Front(closes), ma_trend)
    IN  now # NaN /\ prev # NaN /\ now < prev

\* ----- strategies/micro_momentum.py -----

\* slip: a strict comparison, an unchanged close sells
LastCloseNotLower_mut(last, prev) == last > prev

\* float(mid(pr[-1])) >= float(mid(pr[-2]))
LastCloseNotLower(last, prev) == last >= prev

\* float(None) raises inside the try: every failure ends at `return "BUY"`
micro_momentum_direction(w) ==
    IF ~w.ok \/ Len(w.prices) < 2 THEN "BUY"
    ELSE LET pr == w.prices
             last == bar_mid(pr[Len(pr)], "closePrice")
             prev == bar_mid(pr[Len(pr) - 1], "closePrice")
         IN  IF last = None \/ prev = None THEN "BUY"
             ELSE IF LastCloseNotLower(last, prev) THEN "BUY" ELSE "SELL"

\* ----- strategies/moving_average.py -----

\* slip: only the trend average's own lookback is asked for
ma_lookback_mut(ma_slow, ma_trend) == ma_trend + 1

\* moving_average.py:14
ma_lookback(ma_slow, ma_trend) == ma_trend + ma_slow + 1

\* slip: the previous bar is not looked at, a persistent separation signals
bull_cross_mut(fast_prev, slow_prev, fast_now, slow_now, ma_fast, ma_slow) ==
    fast_now * ma_slow > slow_now * ma_fast

\* fast_prev <= slow_prev and fast_now > slow_now
bull_cross(fast_prev, slow_prev, fast_now, slow_now, ma_fast, ma_slow) ==
    /\ fast_prev * ma_slow <= slow_prev * ma_fast
    /\ fast_now * ma_slow > slow_now * ma_fast

\* fast_prev >= slow_prev and fast_now < slow_now
bear_cross(fast_prev, slow_prev, fast_now, slow_now, ma_fast, ma_slow) ==
    /\ fast_prev * ma_slow >= slow_prev * ma_fast
    /\ fast_now * ma_slow < slow_now * ma_fast

ma_direction(bs, ma_fast, ma_slow, ma_trend) ==
    LET closes == Closes(extract_ohlc(bs))
        fast_now == sma(closes, ma_fast)
        fast_prev == sma(Front(closes), ma_fast)
        slow_now == sma(closes, ma_slow)
        slow_prev == sma(Front(closes), ma_slow)
    IN  IF Len(closes) < ma_lookback(ma_slow, ma_trend) THEN "none"
        ELSE IF NaN \in {sma(closes, ma_trend), sma(Front(closes), ma_trend),
                         fast_now, fast_prev, slow_now, slow_prev}
        THEN "none"
        ELSE IF /\ bull_cross(fast_prev, slow_prev, fast_now, slow_now, ma_fast, ma_slow)
                /\ trend_up(closes, ma_trend)
        THEN "BUY"
        ELSE IF /\ bear_cross(fast_prev, slow_prev, fast_now, slow_now, ma_fast, ma_slow)
                /\ trend_down(closes, ma_trend)
        THEN "SELL"
        ELSE "none"

\* ----- strategies/rsi.py, indicators.rsi_series -----

\* gains[i] = max(ch, 0), losses[i] = max(-ch, 0)
Gains(closes) == [i \in 1..(Len(closes) - 1) |-> Max2(closes[i + 1] - closes[i], 0)]
Losses(closes) == [i \in 1..(Len(closes) - 1) |-> Max2(closes[i] - closes[i + 1], 0)]

\* the Wilder average after the j-th change: the mean of the first `period`
\* changes, then avg = (avg * (period - 1) + x) / period for each further one
RECURSIVE wilder(_, _, _)
wilder(xs, period, j) ==
    IF j <= period
    THEN Rat(SumSeq(SubSeq(xs, 1, period)), period)
    ELSE LET avg == wilder(xs, period, j - 1)
         IN  Rat(avg.n * (period - 1) + xs[j] * avg.d, avg.d * period)

\* 100 - 100 / (1 + rs), rs = inf when avg_loss == 0
rsi_value(avg_gain, avg_loss) ==
    IF avg_loss.n = 0 THEN Whole(100)
    ELSE Rat(100 * avg_gain.n * avg_loss.d, avg_gain.n * avg_loss.d + avg_loss.n * avg_gain.d)

rsi_series(closes, period) ==
    IF Len(closes) < period + 1 THEN <<>>
    ELSE [k \in 1..(Len(closes) - 1 - period) |->
            rsi_value(wilder(Gains(closes), period, period + k),
                      wilder(Losses(closes), period, period + k))]

\* rsi.py:13
rsi_lookback(period, ma_trend) == ma_trend + period + 1

rsi_direction(bs, period, rsi_lo, rsi_hi, ma_trend) ==
    LET closes == Closes(extract_ohlc(bs))
        rsis == rsi_series(closes, period)
    IN  IF Len(closes) < rsi_lookback(period, ma_trend) THEN "none"
        ELSE IF Len(rsis) < 2 THEN "none"
        ELSE LET r_prev == rsis[Len(rsis) - 1]
                 r_now == rsis[Len(rsis)]
             IN  IF /\ RLe(r_prev, Whole(rsi_lo)) /\ RLt(Whole(rsi_lo), r_now)
                    /\ trend_up(closes, ma_trend)
                 THEN "BUY"
                 ELSE IF /\ RLe(Whole(rsi_hi), r_prev) /\ RLt(r_now, Whole(rsi_hi))
                         /\ trend_down(closes, ma_trend)
                 THEN "SELL"
                 ELSE "none"

\* ----- strategies/stochastic.py, indicators.stoch_kd -----

WindowHigh(o, i, k_period) ==
    LET hs == { o[x].high : x \in (i - k_period + 1)..i }
    IN  CHOOSE h \in hs : \A g \in hs : g <= h

WindowLow(o, i, k_period) ==
    LET ls == { o[x].low : x \in (i - k_period + 1)..i }
    IN  CHOOSE l \in ls : \A g \in ls : g >= l

\* k = 0.0 if denom == 0 else 100.0 * (closes[i] - window_l) / denom
PercentK(o, i, k_period) ==
    LET denom == WindowHigh(o, i, k_period) - WindowLow(o, i, k_period)
    IN  IF denom = 0 THEN Whole(0)
        ELSE Rat(100 * (o[i].close - WindowLow(o, i, k_period)), denom)

RECURSIVE RSum(_)
RSum(rs) == IF Len(rs) = 0 THEN Whole(0) ELSE RAdd(rs[Len(rs)], RSum(Front(rs)))

\* the %K and %D lists, %K cut to the length of %D
stoch_kd(o, k_period, d_period) ==
    IF Len(o) < k_period THEN [k |-> <<>>, d |-> <<>>]
    ELSE LET k_all == [j \in 1..(Len(o) - k_period + 1) |-> PercentK(o, j + k_period - 1, k_period)]
             n_d == Max2(Len(k_all) - d_period + 1, 0)
             d_vals == [j \in 1..n_d |->
                          RDiv(RSum(SubSeq(k_all, j, j + d_period - 1)), Whole(d_period))]
         IN  [k |-> SubSeq(k_all, Len(k_all) - n_d + 1, Len(k_all)), d |-> d_vals]

\* stochastic.py:14
stochastic_lookback(k_period, d_period, ma_trend) == ma_trend + k_period + d_period

stochastic_direction(bs, k_period, d_period, k_lo, k_hi, ma_trend) ==
    LET o == extract_ohlc(bs)
        closes == Closes(o)
        kd == stoch_kd(o, k_period, d_period)
    IN  IF Len(closes) < stochastic_lookback(k_period, d_period, ma_trend) THEN "none"
        ELSE IF Len(kd.k) < 2 \/ Len(kd.d) < 2 THEN "none"
        ELSE LET k_prev == kd.k[Len(kd.k) - 1]
                 k_now == kd.k[Len(kd.k)]
                 d_prev == kd.d[Len(kd.d) - 1]
                 d_now == kd.d[Len(kd.d)]
             IN  IF /\ RLe(k_prev, d_prev) /\ RLt(d_now, k_now) /\ RLt(k_prev, Whole(k_lo))
                    /\ trend_up(closes, ma_trend)
                 THEN "BUY"
                 ELSE IF /\ RLe(d_prev, k_prev) /\ RLt(k_now, d_now) /\ RLt(Whole(k_hi), k_prev)
                         /\ trend_down(closes, ma_trend)
                 THEN "SELL"
                 ELSE "none"

\* ----- strategies/__init__.py -----

Strategies == {"micro_momentum", "moving_average", "stochastic", "rsi"}

\* choose_direction; the trend-gated strategies do not catch a failed fetch
choose_direction(s, w) ==
    IF s = "micro_momentum" THEN micro_momentum_direction(w)
    ELSE IF ~w.ok THEN "raised"
    ELSE IF s = "moving_average" THEN ma_direction(w.prices, MA_FAST, MA_SLOW, MA_TREND)
    ELSE IF s = "stochastic"
    THEN stochastic_direction(w.prices, STO_K_PERIOD, STO_D_PERIOD, STO_LO, STO_HI, MA_TREND)
    ELSE IF s = "rsi" THEN rsi_direction(w.prices, RSI_PERIOD, RSI_LO, RSI_HI, MA_TREND)
    ELSE "none"

S_ChooseDirection ==
    /\ strat = "none"
    /\ \E s \in Strategies :
         /\ strat' = s
         /\ signal' = choose_direction(s, window)
    /\ UNCHANGED <<window, envVars, tmVars, mainVars, sizeVars, bookVars, clockVars, amendVars, clientVars>>

InitStrategy ==
    /\ TradingIdle
    /\ today = 1
    /\ ledger = NewLedger(today)
    /\ state_json = flush_state(ledger)
    /\ csv_sum = 0
    /\ proc = "up"
    /\ details = None
    /\ sizing = None
    /\ capital = None
    /\ sz_pc = "idle"
    /\ window \in FetchResults
    /\ strat = "none"
    /\ signal = "none"
    /\ clock = StartOfRun
    /\ gate = NoGate
    /\ ig_min_stop_points = 0
    /\ amendment = NoAmendment
    /\ ClientIdle

NextStrategy == S_ChooseDirection

SpecStrategy == InitStrategy /\ [][NextStrategy]_vars

TypeOK_Strategy ==
    /\ strat \in Strategies \cup {"none"}
    /\ signal \in {"BUY", "SELL", "none", "raised"}


\* ============================ sessions.py ============================
\* The clock is a weekday (Monday = 0) and the second of the day, Berlin time.

SESSION_FILTER_ENABLED == TRUE
SESSION_SKIP_WEEKENDS == TRUE
\* "09:05,11:15;15:30,17:05"
SESSION_WINDOWS_LOCAL ==
    { [start |-> 9 * 3600 + 5 * 60, end |-> 11 * 3600 + 15 * 60],
      [start |-> 15 * 3600 + 30 * 60, end |-> 17 * 3600 + 5 * 60] }

is_within_sessions(t) ==
    IF ~SESSION_FILTER_ENABLED THEN TRUE
    ELSE IF SESSION_SKIP_WEEKENDS /\ t.weekday >= 5 THEN FALSE
    ELSE \E w \in SESSION_WINDOWS_LOCAL : w.start <= t.second /\ t.second <= w.end

\* the instants the clock of a run passes through: Monday 10:00:00, Monday
\* 11:15:01 (a second after the morning window)
ClockInstants == <<StartOfRun, [weekday |-> 0, second |-> 11 * 3600 + 15 * 60 + 1]>>

\* time passes
Tick ==
    /\ m_pc \notin {"none", "end"}
    /\ \E i \in 1..(Len(ClockInstants) - 1) :
         /\ clock = ClockInstants[i]
         /\ clock' = ClockInstants[i + 1]
    /\ UNCHANGED <<envVars, tmVars, mainVars, sizeVars, bookVars, stratVars, amendVars, clientVars>>


\* ============================ main.py ============================
\* The orchestrator main() with its own trade_manager.  Amounts are in whole
\* account-currency units; DAILY_TARGET_EUR is scaled down with MaxTrades.

DAILY_TARGET_EUR == 2
\* the guards of the design (orchestrator, stop conditions); main.py has no
\* such setting
MAX_CONSECUTIVE_LOSSES == 2
DAILY_MAX_LOSS_EUR == 3
\* main.py:572  move_pts >= (tp_pts * 0.8)
FAVOURABLE_NUM == 8
FAVOURABLE_DEN == 10

MaxTrades == 3
MaxManagerPolls == 2

\* main.py's ema_of_closes keeps every bar that has a close price
RECURSIVE main_closes(_)
main_closes(bs) ==
    IF Len(bs) = 0 THEN <<>>
    ELSE LET rest == main_closes(SubSeq(bs, 1, Len(bs) - 1))
             mid == bar_mid(bs[Len(bs)], "closePrice")
         IN  IF mid = None THEN rest ELSE Append(rest, mid)

main_ema_of_closes(bs, period) ==
    LET closes == main_closes(bs)
    IN  IF Len(closes) = 0
        THEN [num |-> NaN, den |-> 1]
        ELSE [num |-> ema_num(closes, period), den |-> ema_den(closes, period)]

\* momentum_direction: TRUE for "BUY"; float(None) raises inside the try
momentum_direction(pr) ==
    IF Len(pr) >= 2
       /\ bar_mid(pr[Len(pr)], "closePrice") # None
       /\ bar_mid(pr[Len(pr) - 1], "closePrice") # None
    THEN bar_mid(pr[Len(pr)], "closePrice") >= bar_mid(pr[Len(pr) - 1], "closePrice")
    ELSE TRUE

\* slip: the spread test left out of the gate
EntryGateFails_mut(bs) ==
    LET atr == compute_atr_points(bs, ATR_PERIOD)
        ms == latest_mid_and_spread(bs)
    IN  \/ atr = NaN
        \/ ms.mid = None
        \/ atr < ATR_MIN_THRESHOLD * ATR_PERIOD

\* main.py:738-740, the entry gate
EntryGateFails(bs) ==
    LET atr == compute_atr_points(bs, ATR_PERIOD)
        ms == latest_mid_and_spread(bs)
    IN  \/ atr = NaN
        \/ ms.mid = None
        \/ atr < ATR_MIN_THRESHOLD * ATR_PERIOD
        \/ ms.spread # None /\ ms.spread > SPREAD_MAX_POINTS

\* what the bar window of the entry gate looks like: no bars, ATR undefined,
\* no mid price, ATR below its minimum, spread above its maximum
GateSeen(w) ==
    LET atr == compute_atr_points(w, ATR_PERIOD)
        ms == latest_mid_and_spread(w)
    IN  [seen |-> TRUE,
         empty |-> Len(w) = 0,
         atr_nan |-> Len(w) > 0 /\ atr = NaN,
         no_mid |-> Len(w) > 0 /\ ms.mid = None,
         atr_low |-> atr # NaN /\ atr < ATR_MIN_THRESHOLD * ATR_PERIOD,
         spread_high |-> ms.spread # None /\ ms.spread > SPREAD_MAX_POINTS]

\* main.py:730, the loop condition (amounts are whole units, which absorbs 1e-6)
LoopContinues == realized_approx < DAILY_TARGET_EUR /\ ~stop_event

\* main.py:578 and :584
MainIndicatorsUndefined(bs) ==
    \/ Len(bs) = 0
    \/ latest_mid_and_spread(bs).mid = None
    \/ compute_atr_points(bs, ATR_PERIOD) = NaN
    \/ main_ema_of_closes(bs, EMA_PERIOD).num = NaN

\* main.py:611 and :629, which exit the indicators of this poll call for
MainExitKind(long, bs) ==
    LET e == main_ema_of_closes(bs, EMA_PERIOD)
        ms == latest_mid_and_spread(bs)
    IN  IF (long /\ ms.mid * e.den < e.num) \/ (~long /\ ms.mid * e.den > e.num)
        THEN "ema"
        ELSE IF \/ compute_atr_points(bs, ATR_PERIOD) < ATR_MIN_THRESHOLD * ATR_PERIOD
                \/ ms.spread # None /\ ms.spread > SPREAD_MAX_POINTS
        THEN "vol"
        ELSE "none"

\* main.py:720 and :813, the margin budget passed as max_margin_eur
MAX_MARGIN_EUR == 500

\* main.py:462-503, compute_size_and_distances of main.py: no feasibility
\* flag, and the size is raised to the broker's minimum after the scaling
main_compute_size_and_distances(det, target_eur, max_margin_eur, ties) ==
    LET min_limit == Hundredths(det.min_distance)
        min_size == Hundredths(det.min_size)
        mult == Whole(STOP_TO_LIMIT_MULTIPLIER)
        size0 == RMax(Whole(1), min_size)
        points0 == RMul(RDiv(Whole(target_eur), RMul(Whole(det.pip_value), size0)),
                        Whole(det.points_per_pip))
        short == ~RLe(min_limit, points0)                  \* points_needed < min_limit
        size1 == IF short
                 THEN RMax(min_size,
                           RDiv(Whole(target_eur),
                                RMul(Whole(det.pip_value),
                                     RDiv(min_limit, Whole(det.points_per_pip)))))
                 ELSE size0
        limit1 == RMax(min_limit, points0)
        est_margin == RMul(RMul(Whole(det.price * det.contract_size), size1),
                           Rat(det.margin_pct, 100))
        over == ~RLe(est_margin, Whole(max_margin_eur)) /\ est_margin.n > 0
        size2 == IF over
                 THEN RMax(min_size, RMul(size1, RDiv(Whole(max_margin_eur), est_margin)))
                 ELSE size1
        points2 == RMul(RDiv(Whole(target_eur), RMul(Whole(det.pip_value), size2)),
                        Whole(det.points_per_pip))
        limit2 == IF over THEN RMax(min_limit, points2) ELSE limit1
        stop2 == RMax(min_limit, RMul(limit2, mult))
    IN  [size |-> Round2(size2, ties.size),
         limit_distance |-> Round2(limit2, ties.limit),
         stop_distance |-> Round2(stop2, ties.stop), ok |-> TRUE]

\* the Germany 40 snapshots market_details returns: offer 20000, margin band
\* 5 %, minimum distance 4 points, minimum deal size 0.1 or 1
MainDetails ==
    [price : {20000}, contract_size : {1}, margin_pct : {5},
     min_size : {10, 100}, max_size : {1000}, min_distance : {400},
     pip_value : {1}, points_per_pip : {1}]

\* tp_pts in points, from the take-profit distance in hundredths
PointsOf(hundredths) == hundredths \div 100

\* what main() and its trade_manager read from one bar window; the sets cover
\* every window recent_prices can return
GateViews ==
    {[skip |-> (Len(w) = 0 \/ EntryGateFails(w)), mid |-> latest_mid_and_spread(w).mid,
      seen |-> GateSeen(w)] :
        w \in Windows(MaxBars)}
DirectionViews == {momentum_direction(pr) : pr \in Windows(3)}
GoneViews == {latest_mid_and_spread(w).mid : w \in Windows(2)}
PollViews ==
    {[undefined |-> MainIndicatorsUndefined(w),
      mid |-> latest_mid_and_spread(w).mid,
      exit_long |-> IF MainIndicatorsUndefined(w) THEN "none" ELSE MainExitKind(TRUE, w),
      exit_short |-> IF MainIndicatorsUndefined(w) THEN "none" ELSE MainExitKind(FALSE, w)] :
        w \in Windows(MaxBars)}

mgrVars == <<tm_pc, trailing_activated, approx_favourable, exit_kind, pos_row, tm_calls>>
tradeArgs == <<deal_id, is_long, entry_level, tp_pts>>
ledgerVars == <<realized_approx, day_net, consec_losses>>

\* ig.login(), choose_germany40_epic(ig), compute_size_and_distances(...)
M_Login ==
    /\ m_pc = "login"
    /\ \/ /\ m_pc' = "finally"          \* login or the market search raised
          /\ UNCHANGED <<details, sizing, tp_pts>>
       \/ \E det \in MainDetails, ties \in Ties :
            /\ details' = det
            /\ sizing' = main_compute_size_and_distances(det, PER_TRADE_TARGET_EUR,
                                                         MAX_MARGIN_EUR, ties)
            /\ tp_pts' = PointsOf(sizing'.limit_distance)
            /\ m_pc' = "while"
    /\ UNCHANGED <<envVars, mgrVars, deal_id, is_long, entry_level, ledgerVars, bars, tm_ret,
                   trade_num, gate_mid, next_deal, tidy, confirm, capital, sz_pc, bookVars, stratVars, clockVars, amendVars, clientVars>>
    /\ UNCHANGED gate

\* while (realized_approx + 1e-6) < DAILY_TARGET_EUR and not stop_event.is_set()
M_While ==
    /\ m_pc = "while"
    /\ m_pc' = IF LoopContinues THEN "gate" ELSE "tidy"
    /\ confirm' = NoConfirm       \* confirm is assigned again by the next submission
    /\ gate' = NoGate             \* and so are bars, atr, last_mid, spread
    /\ UNCHANGED <<envVars, mgrVars, tradeArgs, ledgerVars, bars, tm_ret, trade_num,
                   gate_mid, next_deal, tidy, restVars>>

\* the entry gate; recent_prices is not inside a try
M_Gate ==
    /\ m_pc = "gate"
    /\ \/ m_pc' = "finally" /\ UNCHANGED <<gate_mid, gate>>     \* recent_prices raised
       \/ \E v \in GateViews :
            /\ gate' = v.seen
            /\ IF v.skip
               THEN m_pc' = "while" /\ UNCHANGED gate_mid
               ELSE m_pc' = "direction" /\ gate_mid' = v.mid
    /\ UNCHANGED <<envVars, mgrVars, tradeArgs, ledgerVars, bars, tm_ret, trade_num, next_deal,
                   tidy, confirm, restVars>>

\* direction = momentum_direction(ig, epic); trade_num += 1
M_Direction ==
    /\ m_pc = "direction"
    /\ trade_num < MaxTrades
    /\ \/ is_long' = TRUE                                   \* recent_prices raised
       \/ \E buy \in DirectionViews : is_long' = buy
    /\ trade_num' = trade_num + 1
    /\ m_pc' = "open"
    /\ UNCHANGED <<envVars, mgrVars, deal_id, entry_level, tp_pts, ledgerVars, bars, tm_ret,
                   gate_mid, next_deal, tidy, confirm, restVars>>
    /\ UNCHANGED gate

\* the values of dealStatus / status in a confirmation ("" when absent)
Statuses == {"ACCEPTED", "OPENED", "FILLED", "REJECTED", ""}

\* main.py:773 handles the confirmation as accepted
SubmissionAccepted_mut(status, did) == status \in {"ACCEPTED", "OPENED", "FILLED"}

SubmissionAccepted(status, did) ==
    status \in {"ACCEPTED", "OPENED", "FILLED"} /\ did # None

\* main.py:768-769 and :775-776, sleep(RETRY_BACKOFF_SEC) and continue
AfterFailedSubmission == "while"

\* ig.open_market_position(...) and the checks of the confirmation.  The call
\* raises before or after the broker took the order; a position is opened
\* when the order was taken and its status is one of the accepted ones.
M_Open ==
    /\ m_pc = "open"
    /\ \E raised \in BOOLEAN, placed \in BOOLEAN, status \in Statuses, has_id \in BOOLEAN :
         LET did == IF has_id THEN next_deal ELSE None
             opened == IF raised THEN placed
                       ELSE status \in {"ACCEPTED", "OPENED", "FILLED"}
             handed == ~raised /\ SubmissionAccepted(status, did)
         IN  /\ raised => (status = "" /\ ~has_id)
             /\ ~raised => placed
             /\ confirm' = [raised |-> raised, status |-> status, deal |-> did]
             /\ positions' = IF opened THEN positions \cup {next_deal} ELSE positions
             /\ next_deal' = IF opened THEN next_deal + 1 ELSE next_deal
             /\ deal_id' = IF handed THEN did ELSE deal_id
             /\ m_pc' = IF handed THEN "entry" ELSE AfterFailedSubmission
    /\ UNCHANGED <<stop_event, trailing_stops, mgrVars, is_long, entry_level, tp_pts,
                   ledgerVars, bars, tm_ret, trade_num, gate_mid, tidy, restVars>>
    /\ UNCHANGED gate

\* entry level from the position record, else last_mid; trade_manager starts
M_Entry ==
    /\ m_pc = "entry"
    /\ \E ok \in BOOLEAN :
         entry_level' = IF ok /\ deal_id \in positions
                        THEN CHOOSE e \in EntryLevels : TRUE
                        ELSE gate_mid
    /\ m_pc' = "trade_manager"
    /\ tm_pc' = "loop"
    /\ trailing_activated' = FALSE
    /\ approx_favourable' = FALSE
    /\ exit_kind' = "none"
    /\ pos_row' = None
    /\ tm_calls' = [n \in CallNames |-> 0]
    /\ gate_mid' = None       \* last_mid is assigned again by the next entry gate
    /\ confirm' = NoConfirm
    /\ UNCHANGED <<envVars, deal_id, is_long, tp_pts, ledgerVars, bars, tm_ret, trade_num,
                   next_deal, tidy, restVars>>
    /\ UNCHANGED gate

\* ----- main.trade_manager -----
MgrFrame == UNCHANGED <<tradeArgs, ledgerVars, bars, tm_ret, trade_num, gate_mid, next_deal,
                        tidy, confirm, restVars>>

\* while not stop_event.is_set(): leaving the loop returns None, which is falsy
MT_Loop ==
    /\ m_pc = "trade_manager" /\ tm_pc = "loop"
    /\ IF stop_event
       THEN tm_pc' = "idle" /\ m_pc' = "account" /\ approx_favourable' = FALSE
       ELSE tm_pc' = "poll" /\ UNCHANGED <<m_pc, approx_favourable>>
    /\ UNCHANGED <<envVars, trailing_activated, exit_kind, pos_row, tm_calls>>
    /\ MgrFrame
    /\ UNCHANGED gate

\* positions = ig.list_positions(), not inside a try
MT_ListPositions ==
    /\ m_pc = "trade_manager" /\ tm_pc = "poll"
    /\ tm_calls["list_positions"] < MaxManagerPolls
    /\ tm_calls' = Called("list_positions")
    /\ \E ok \in BOOLEAN :
         IF ok
         THEN /\ pos_row' = IF deal_id \in positions THEN deal_id ELSE None
              /\ tm_pc' = IF deal_id \in positions THEN "bars" ELSE "gone"
              /\ UNCHANGED m_pc
         ELSE /\ pos_row' = None
              /\ tm_pc' = "idle"
              /\ m_pc' = "finally"
    /\ UNCHANGED <<envVars, trailing_activated, approx_favourable, exit_kind>>
    /\ MgrFrame
    /\ UNCHANGED gate

\* the position is gone: infer favourability from the last price
MT_Gone ==
    /\ m_pc = "trade_manager" /\ tm_pc = "gone"
    /\ tm_pc' = "idle"
    /\ \/ m_pc' = "finally" /\ UNCHANGED approx_favourable      \* recent_prices raised
       \/ \E mid \in GoneViews :
                /\ approx_favourable' =
                     IF mid # None
                        /\ (MovePts(is_long, entry_level, mid) * FAVOURABLE_DEN
                               >= tp_pts * FAVOURABLE_NUM
                            \/ trailing_activated)
                     THEN TRUE
                     ELSE approx_favourable
                /\ m_pc' = "account"
    /\ UNCHANGED <<envVars, trailing_activated, exit_kind, pos_row, tm_calls>>
    /\ MgrFrame
    /\ UNCHANGED gate

\* bars = ig.recent_prices(...), not inside a try; the indicators
MT_RecentPrices ==
    /\ m_pc = "trade_manager" /\ tm_pc = "bars"
    /\ \/ tm_pc' = "idle" /\ m_pc' = "finally" /\ UNCHANGED exit_kind
       \/ \E v \in PollViews :
            /\ UNCHANGED m_pc
            /\ IF v.undefined
               THEN tm_pc' = "sleep" /\ UNCHANGED exit_kind
               ELSE /\ exit_kind' = IF is_long THEN v.exit_long ELSE v.exit_short
                    /\ tm_pc' = IF ShouldAmend(trailing_activated,
                                     MovePts(is_long, entry_level, v.mid),
                                     tp_pts)
                                THEN "amend"
                                ELSE "exits"
    /\ UNCHANGED <<envVars, trailing_activated, approx_favourable, pos_row, tm_calls>>
    /\ MgrFrame
    /\ UNCHANGED gate

\* ig.update_position(deal_id, trailing_stop=True, ...) inside try/except
MT_UpdatePosition ==
    /\ m_pc = "trade_manager" /\ tm_pc = "amend"
    /\ \E ok \in BOOLEAN :
         /\ ok => deal_id \in positions
         /\ trailing_stops' = IF ok THEN trailing_stops \cup {deal_id} ELSE trailing_stops
         /\ trailing_activated' = TrailingAfterUpdate(ok, trailing_activated)
         /\ approx_favourable' = TrailingAfterUpdate(ok, approx_favourable)
    /\ tm_pc' = "exits"
    /\ UNCHANGED <<stop_event, positions, m_pc, exit_kind, pos_row, tm_calls>>
    /\ MgrFrame
    /\ UNCHANGED gate

\* either exit: ig.close_position_market(...) inside try/except, return approx_favourable
MT_Close ==
    /\ m_pc = "trade_manager" /\ tm_pc = "exits"
    /\ exit_kind \in {"ema", "vol"}
    /\ \E ok \in BOOLEAN :
         /\ positions' = IF ok THEN positions \ {deal_id} ELSE positions
         /\ trailing_stops' = IF ok THEN trailing_stops \ {deal_id} ELSE trailing_stops
    /\ tm_pc' = "idle"
    /\ m_pc' = "account"
    /\ UNCHANGED <<stop_event, trailing_activated, approx_favourable,
                   exit_kind, pos_row, tm_calls>>
    /\ MgrFrame
    /\ UNCHANGED gate
MT_NoExit ==
    /\ m_pc = "trade_manager" /\ tm_pc = "exits"
    /\ exit_kind = "none"
    /\ tm_pc' = "sleep"
    /\ UNCHANGED <<envVars, m_pc, trailing_activated, approx_favourable, exit_kind, pos_row,
                   tm_calls>>
    /\ MgrFrame
    /\ UNCHANGED gate

\* time.sleep(POLL_POSITIONS_SEC)
MT_Sleep ==
    /\ m_pc = "trade_manager" /\ tm_pc = "sleep"
    /\ tm_pc' = "loop"
    /\ pos_row' = None
    /\ exit_kind' = "none"
    /\ UNCHANGED <<envVars, m_pc, trailing_activated, approx_favourable, tm_calls>>
    /\ MgrFrame
    /\ UNCHANGED gate

\* ----- back in main -----

\* the P&L the trade made: the per-trade target when the manager saw a
\* favourable exit; else nothing, or, when the position is closed, the
\* stop-loss (STOP_TO_LIMIT_MULTIPLIER take-profit distances)
TradePnl(favourable, still_open) ==
    IF favourable THEN {PER_TRADE_TARGET_EUR}
    ELSE IF still_open THEN {0}
    ELSE {0, 0 - STOP_TO_LIMIT_MULTIPLIER * PER_TRADE_TARGET_EUR}

\* if favourable: realized_approx += PER_TRADE_TARGET_EUR
RealizedAfter(favourable, realized) ==
    IF favourable THEN realized + PER_TRADE_TARGET_EUR ELSE realized

M_Account ==
    /\ m_pc = "account"
    /\ realized_approx' = RealizedAfter(approx_favourable, realized_approx)
    /\ \E pnl \in TradePnl(approx_favourable, deal_id \in positions) :
         /\ day_net' = day_net + pnl
         /\ consec_losses' = IF pnl > 0 THEN 0 ELSE consec_losses + 1
    /\ m_pc' = "resize"
    \* the locals of the finished trade are all assigned again before their next use
    /\ deal_id' = 0 /\ is_long' = TRUE /\ entry_level' = 0
    /\ trailing_activated' = FALSE /\ approx_favourable' = FALSE
    /\ exit_kind' = "none" /\ pos_row' = None
    /\ tm_calls' = [n \in CallNames |-> 0]
    /\ UNCHANGED <<envVars, tm_pc, tp_pts, bars, tm_ret, trade_num, gate_mid, next_deal,
                   tidy, confirm, restVars>>
    /\ UNCHANGED gate

\* re-check sizing: market_details and compute_size_and_distances in try/except
M_Resize ==
    /\ m_pc = "resize"
    /\ \/ UNCHANGED <<details, sizing, tp_pts>>       \* market_details raised: pass
       \/ \E det \in MainDetails, ties \in Ties :
            LET new == main_compute_size_and_distances(det, PER_TRADE_TARGET_EUR,
                                                       MAX_MARGIN_EUR, ties)
                adjust == \/ new.size # sizing.size
                          \/ new.limit_distance # sizing.limit_distance
            IN  /\ details' = det
                /\ sizing' = IF adjust THEN new ELSE sizing
                /\ tp_pts' = IF adjust THEN PointsOf(new.limit_distance) ELSE tp_pts
    /\ m_pc' = "while"
    /\ UNCHANGED <<envVars, mgrVars, deal_id, is_long, entry_level, ledgerVars, bars, tm_ret,
                   trade_num, gate_mid, next_deal, tidy, confirm, capital, sz_pc, bookVars, stratVars, clockVars, amendVars, clientVars>>
    /\ UNCHANGED gate

\* close_all_positions(ig, epic=None): lists the open positions and calls
\* close_position_market for each; a close may fail (logged), and when the
\* listing fails no close is attempted at all (main.py:671-672)
ShutdownAttempts_mut(list_ok) == {}

ShutdownAttempts(list_ok) == IF list_ok THEN positions ELSE {}

close_all_positions(list_ok, closed) ==
    /\ closed \subseteq ShutdownAttempts(list_ok)
    /\ positions' = positions \ closed
    /\ trailing_stops' = trailing_stops \ closed
    /\ tidy' = [called |-> TRUE, listed |-> list_ok, attempts |-> ShutdownAttempts(list_ok)]

M_Tidy ==
    /\ m_pc = "tidy"
    /\ \E list_ok \in BOOLEAN, closed \in SUBSET positions : close_all_positions(list_ok, closed)
    /\ m_pc' = "finally"
    /\ UNCHANGED <<stop_event, mgrVars, tradeArgs, ledgerVars, bars, tm_ret,
                   trade_num, gate_mid, next_deal, confirm, restVars>>
    /\ UNCHANGED gate

\* finally: ig.logout()
M_Finally ==
    /\ m_pc = "finally"
    /\ m_pc' = "exit"
    /\ UNCHANGED <<envVars, mgrVars, tradeArgs, ledgerVars, bars, tm_ret, trade_num,
                   gate_mid, next_deal, tidy, confirm, restVars>>
    /\ UNCHANGED gate

\* main.py:708, sys.exit(0) inside the handler ends the run
AfterSignal_mut == "while"

AfterSignal == "exit"

\* SIGINT / SIGTERM: stop_event.set(); close_all_positions; logout; sys.exit(0)
handle_signal ==
    /\ m_pc \notin {"none", "exit"}
    /\ stop_event' = TRUE
    /\ \E list_ok \in BOOLEAN, closed \in SUBSET positions : close_all_positions(list_ok, closed)
    /\ m_pc' = AfterSignal
    /\ tm_pc' = "idle"
    /\ UNCHANGED <<trailing_activated, approx_favourable, exit_kind, pos_row,
                   tm_calls, tradeArgs, ledgerVars, bars, tm_ret, trade_num, gate_mid, next_deal,
                   confirm, restVars>>
    /\ UNCHANGED gate

\* take-profit, stop or trailing stop hit while the bot runs
BrokerClosesDeal ==
    /\ m_pc \notin {"none", "exit"}
    /\ \E d \in positions :
         /\ positions' = positions \ {d}
         /\ trailing_stops' = trailing_stops \ {d}
    /\ UNCHANGED <<stop_event, tmVars, mainVars, restVars>>

Init ==
    /\ stop_event = FALSE
    /\ positions = {}
    /\ trailing_stops = {}
    /\ deal_id = 0
    /\ is_long = TRUE
    /\ entry_level = 0
    /\ tp_pts \in TpPoints
    /\ tm_pc = "idle"
    /\ trailing_activated = FALSE
    /\ pos_row = None
    /\ bars = <<>>
    /\ tm_ret = Running
    /\ tm_calls = [n \in CallNames |-> 0]
    /\ m_pc = "login"
    /\ realized_approx = 0
    /\ trade_num = 0
    /\ gate_mid = None
    /\ approx_favourable = FALSE
    /\ exit_kind = "none"
    /\ next_deal = 1
    /\ day_net = 0
    /\ consec_losses = 0
    /\ tidy = NoTidy
    /\ confirm = NoConfirm
    /\ details = None
    /\ sizing = NoSizing
    /\ capital = None
    /\ sz_pc = "idle"
    /\ today = 1
    /\ ledger = NewLedger(today)       \* main.py never opens the ledger
    /\ state_json = flush_state(ledger)
    /\ csv_sum = 0
    /\ proc = "up"
    /\ window = NoFetch
    /\ strat = "none"
    /\ signal = "none"
    /\ clock = StartOfRun
    /\ gate = NoGate
    /\ ig_min_stop_points = 0
    /\ amendment = NoAmendment
    /\ ClientIdle

Next ==
    \/ M_Login
    \/ M_While
    \/ M_Gate
    \/ M_Direction
    \/ M_Open
    \/ M_Entry
    \/ MT_Loop
    \/ MT_ListPositions
    \/ MT_Gone
    \/ MT_RecentPrices
    \/ MT_UpdatePosition
    \/ MT_Close
    \/ MT_NoExit
    \/ MT_Sleep
    \/ M_Account
    \/ M_Resize
    \/ M_Tidy
    \/ M_Finally
    \/ handle_signal
    \/ BrokerClosesDeal
    \/ Tick

Spec == Init /\ [][Next]_vars

TypeOK ==
    /\ m_pc \in {"login", "while", "gate", "direction", "open", "entry", "trade_manager",
                 "account", "resize", "tidy", "finally", "exit"}
    /\ tm_pc \in {"idle", "loop", "poll", "gone", "bars", "amend", "exits", "sleep"}
    /\ realized_approx \in 0..(DAILY_TARGET_EUR + PER_TRADE_TARGET_EUR)
    /\ trade_num \in 0..MaxTrades

\* ============================ ig_client.py ============================
\* config.py:78-79 and the weekly allowance of config.py:74, scaled down
PRICE_CACHE_STALE_SEC == 300
HIST_RESERVE_POINTS == 5
EST_HIST_POINTS_WEEK == 9

\* the largest num_points asked for, and how far the clock runs
MaxPoints == 3
MaxWall == 660

\* _res_seconds of MINUTE and of MINUTE_5
ResSeconds == {60, 300}

\* quota.py:119-120, snapshot()["hist"]["remaining"]
hist_remaining == Max2(0, EST_HIST_POINTS_WEEK - week_used)

\* ig_client.py:178, 210-214: `cached` as a truth value
CachedTruthy == price_cache # None /\ price_cache > 0
use_cache_due_to_quota ==
    rp_cfg.enabled /\ CachedTruthy /\ hist_remaining <= Max2(0, HIST_RESERVE_POINTS)
cache_fresh ==
    price_cache # None /\ wall - price_last_fetch < Max2(1, (95 * rp_cfg.period) \div 100)

\* slip: a cache beyond PRICE_CACHE_STALE_SEC is not served on a low allowance
ServeFromCache_mut(num_points) ==
    /\ rp_cfg.enabled /\ CachedTruthy /\ price_cache >= Max2(1, num_points)
    /\ \/ cache_fresh
       \/ use_cache_due_to_quota /\ wall - price_last_fetch <= PRICE_CACHE_STALE_SEC

\* ig_client.py:216-225: both branches under the test return the cached bars
ServeFromCache(num_points) ==
    /\ rp_cfg.enabled /\ CachedTruthy /\ price_cache >= Max2(1, num_points)
    /\ cache_fresh \/ use_cache_due_to_quota

\* ig_client.py:164-228  recent_prices(epic, resolution, num_points)
RP_Call ==
    \E num_points \in 2..MaxPoints :
        IF ServeFromCache(num_points)
        THEN /\ served' = [source |-> "cache", asked |-> num_points, held |-> price_cache,
                           age |-> wall - price_last_fetch, remaining |-> hist_remaining]
             /\ UNCHANGED <<price_cache, price_last_fetch, week_used>>
        ELSE \* _fetch(): the request raises, fails, or answers up to num_points bars
             \/ /\ served' = [source |-> "raised", asked |-> num_points, held |-> price_cache,
                              age |-> 0, remaining |-> hist_remaining]
                /\ UNCHANGED <<price_cache, price_last_fetch, week_used>>
             \/ \E n \in 0..num_points :
                  \* the count is kept up to the allowance, beyond which
                  \* `remaining` stays 0
                  /\ week_used' = Min2(EST_HIST_POINTS_WEEK, week_used + n)
                  /\ IF rp_cfg.enabled
                     THEN price_cache' = n /\ price_last_fetch' = wall
                     ELSE UNCHANGED <<price_cache, price_last_fetch>>
                  /\ served' = [source |-> "network", asked |-> num_points, held |-> price_cache,
                                age |-> 0, remaining |-> hist_remaining]

RP_Calls ==
    /\ RP_Call
    /\ UNCHANGED <<rp_cfg, wall>>
    /\ UNCHANGED <<envVars, tmVars, mainVars, sizeVars, bookVars, stratVars, clockVars, amendVars>>
    /\ UNCHANGED <<requestVars, closeVars, indVars, quotaVars>>

\* time passes between two calls
RP_Wait ==
    /\ \E d \in {30, 300} : wall + d <= WallStart + MaxWall /\ wall' = wall + d
    /\ UNCHANGED <<rp_cfg, price_cache, price_last_fetch, week_used, served>>
    /\ UNCHANGED <<envVars, tmVars, mainVars, sizeVars, bookVars, stratVars, clockVars, amendVars>>
    /\ UNCHANGED <<requestVars, closeVars, indVars, quotaVars>>

\* nothing but the client is in use
BotIdle ==
    /\ TradingIdle
    /\ details = None /\ sizing = None /\ capital = None /\ sz_pc = "idle"
    /\ ledger = None /\ today = 0 /\ state_json = None /\ csv_sum = 0 /\ proc = "down"
    /\ window = NoFetch /\ strat = "none" /\ signal = "none"
    /\ clock = StartOfRun /\ gate = NoGate
    /\ ig_min_stop_points = 0 /\ amendment = NoAmendment

InitCache ==
    /\ BotIdle
    /\ rp_cfg \in [enabled : BOOLEAN, period : ResSeconds]
    /\ price_cache = None
    /\ price_last_fetch = 0
    /\ wall = WallStart
    /\ week_used = 0
    /\ served = NoServed
    /\ rq = NoRequest
    /\ cl = NoClose
    /\ ind = NoIndicators
    /\ QuotaIdle

NextCache == RP_Calls \/ RP_Wait

SpecCache == InitCache /\ [][NextCache]_vars

TypeOK_Cache ==
    /\ price_cache \in {None} \cup (0..MaxPoints)
    /\ price_last_fetch \in {0} \cup (WallStart..(WallStart + MaxWall))
    /\ week_used \in 0..EST_HIST_POINTS_WEEK
    /\ served.source \in {"none", "cache", "network", "raised"}

\* ---- IGRest._request ----
MaxRequests == 2
HttpStatuses == {200, 201, 401, 403, 500}
Raised == 0 - 3

\* slip: the request is sent again whatever refresh-token answered
RefreshSucceeded_mut(rr) == rr # Raised

\* ig_client.py:90  rr.status_code in (200, 201)
RefreshSucceeded(rr) == rr \in {200, 201}

\* _request touches the session and the tokens only
RQ_Frame ==
    /\ UNCHANGED <<envVars, tmVars, mainVars, sizeVars, bookVars, stratVars, clockVars, amendVars>>
    /\ UNCHANGED <<cacheVars, closeVars, indVars, quotaVars>>

\* a caller enters _request(method, url, version)
RQ_Enter ==
    /\ RQ_Frame
    /\ rq.pc \in {"idle", "done"}
    /\ rq.calls < MaxRequests
    /\ \E m \in {"GET", "POST", "DELETE"} :
         rq' = [NoRequest EXCEPT !.pc = "send", !.calls = rq.calls + 1, !.method = m,
                                 !.token = rq.token]

\* ig_client.py:77  r = self.s.request(...): a response, or the session raises
RQ_Send ==
    /\ RQ_Frame
    /\ rq.pc = "send"
    /\ \/ \E st \in HttpStatuses :
            \* :78-82 tracker.record_call for the response
            rq' = [rq EXCEPT !.sent = 1, !.first = st, !.r = st, !.recorded = 1,
                             !.pc = IF st = 401 THEN "refresh" ELSE "done",
                             !.out = IF st = 401 THEN None ELSE st]
       \/ rq' = [rq EXCEPT !.sent = 1, !.first = Raised, !.r = Raised, !.pc = "done",
                           !.out = Raised]

\* ig_client.py:89-92  POST /session/refresh-token, and the tokens it hands out
RQ_Refresh ==
    /\ RQ_Frame
    /\ rq.pc = "refresh"
    /\ \/ \E st \in {200, 201, 401, 500}, fresh \in BOOLEAN :
            rq' = [rq EXCEPT !.refreshed = 1, !.rr = st,
                             !.token = IF RefreshSucceeded(st) /\ fresh
                                       THEN rq.token + 1 ELSE rq.token,
                             !.pc = IF RefreshSucceeded(st) THEN "retry" ELSE "done",
                             !.out = IF RefreshSucceeded(st) THEN None ELSE rq.r]
       \/ rq' = [rq EXCEPT !.refreshed = 1, !.rr = Raised, !.pc = "done", !.out = Raised]

\* ig_client.py:93, 99  the request sent again, and `return r`
RQ_Retry ==
    /\ RQ_Frame
    /\ rq.pc = "retry"
    /\ \/ \E st \in HttpStatuses :
            \* :94-98 tracker.record_call for the second response
            rq' = [rq EXCEPT !.sent = 2, !.r = st, !.recorded = 2, !.pc = "done", !.out = st]
       \/ rq' = [rq EXCEPT !.sent = 2, !.r = Raised, !.pc = "done", !.out = Raised]

NextRequest == RQ_Enter \/ RQ_Send \/ RQ_Refresh \/ RQ_Retry

InitRequest ==
    /\ BotIdle
    /\ CacheIdle
    /\ rq = NoRequest
    /\ cl = NoClose
    /\ ind = NoIndicators
    /\ QuotaIdle

SpecRequest == InitRequest /\ [][NextRequest]_vars

\* ---- IGRest.close_position_market ----
\* what the broker answers to a close method: a status, or the call raises;
\* ref is the dealReference of the body, 0 when the body has none
CloseStatuses == {200, 201, 400, 404, 500}
RefOf(m, has_ref) ==
    IF ~has_ref THEN 0 ELSE IF m = "netoff" THEN 1 ELSE IF m = "delete" THEN 2 ELSE 3

\* slip: only 200 is taken for an accepted close
CloseAccepted_mut(st) == st = 200

\* ig_client.py:321, 340, 350  status_code in (200, 201)
CloseAccepted(st) == st \in {200, 201}

CL_Frame ==
    /\ UNCHANGED <<envVars, tmVars, mainVars, sizeVars, bookVars, stratVars, clockVars, amendVars>>
    /\ UNCHANGED <<cacheVars, requestVars, indVars, quotaVars>>

\* one close method has been answered with st: return on acceptance, else go on
AfterMethod(m, st, has_ref, next) ==
    LET tried == Append(cl.tried, [m |-> m, st |-> st, ref |-> RefOf(m, has_ref)])
    IN  IF st = Raised
        THEN [cl EXCEPT !.tried = tried, !.pc = "done", !.out = [kind |-> "raised", ref |-> 0]]
        ELSE IF CloseAccepted(st)
        THEN [cl EXCEPT !.tried = tried, !.pc = "done",
                        !.out = [kind |-> "returned", ref |-> RefOf(m, has_ref)]]
        ELSE IF next = "raise"
        THEN [cl EXCEPT !.tried = tried, !.pc = "done", !.out = [kind |-> "raised", ref |-> 0]]
        ELSE [cl EXCEPT !.tried = tried, !.pc = next]

\* ig_client.py:302-309  the call, with or without epic and currency
CL_Enter ==
    /\ CL_Frame
    /\ cl.pc = "idle"
    /\ \E known \in BOOLEAN :
         cl' = [cl EXCEPT !.known = known, !.pc = IF known THEN "netoff" ELSE "delete"]

\* ig_client.py:310-329  POST /positions/otc with forceOpen false
CL_NetOff ==
    /\ CL_Frame
    /\ cl.pc = "netoff"
    /\ \E st \in CloseStatuses \cup {Raised}, has_ref \in BOOLEAN :
         cl' = AfterMethod("netoff", st, has_ref /\ st # Raised, "delete")

\* ig_client.py:331-344  DELETE /positions/otc with the deal id
CL_Delete ==
    /\ CL_Frame
    /\ cl.pc = "delete"
    /\ \E st \in CloseStatuses \cup {Raised}, has_ref \in BOOLEAN :
         cl' = AfterMethod("delete", st, has_ref /\ st # Raised, "override")

\* ig_client.py:346-361  POST with X-HTTP-Method-Override: DELETE, else raise
CL_Override ==
    /\ CL_Frame
    /\ cl.pc = "override"
    /\ \E st \in CloseStatuses \cup {Raised}, has_ref \in BOOLEAN :
         cl' = AfterMethod("override", st, has_ref /\ st # Raised, "raise")

InitClose ==
    /\ BotIdle
    /\ CacheIdle
    /\ rq = NoRequest
    /\ cl = NoClose
    /\ ind = NoIndicators
    /\ QuotaIdle

NextClose == CL_Enter \/ CL_NetOff \/ CL_Delete \/ CL_Override

SpecClose == InitClose /\ [][NextClose]_vars

\* ============================ indicators.py ============================
\* the longest bar window the indicators are computed for
MaxAtrBars == 4
AtrBars ==
    { MidBar(14, 16, 12), MidBar(10, 10, 10), MidBar(6, 8, 4),
      [closePrice |-> Px(8, 12, None), highPrice |-> Px(10, 14, None), lowPrice |-> Px(6, 10, None)],
      [closePrice |-> Px(None, None, 10), highPrice |-> NoPx, lowPrice |-> Px(None, None, 8)] }
AtrWindows == UNION { [1..n -> AtrBars] : n \in 0..MaxAtrBars }

REq(a, b) == a.n * b.d = b.n * a.d

\* compute_atr_points and rsi_series of one bar window
IND_Compute ==
    /\ ind.pc = "call"
    /\ ind' = [pc |-> "done",
               atr |-> compute_atr_points(window.prices, ATR_PERIOD),
               rsi |-> rsi_series(extract_closes(window.prices), RSI_PERIOD)]
    /\ UNCHANGED <<envVars, tmVars, mainVars, sizeVars, bookVars, stratVars, clockVars, amendVars>>
    /\ UNCHANGED <<cacheVars, requestVars, closeVars, quotaVars>>

InitIndicators ==
    /\ TradingIdle
    /\ details = None /\ sizing = None /\ capital = None /\ sz_pc = "idle"
    /\ ledger = None /\ today = 0 /\ state_json = None /\ csv_sum = 0 /\ proc = "down"
    /\ window \in { [ok |-> TRUE, prices |-> w] : w \in AtrWindows }
    /\ strat = "none" /\ signal = "none"
    /\ clock = StartOfRun /\ gate = NoGate
    /\ ig_min_stop_points = 0 /\ amendment = NoAmendment
    /\ CacheIdle
    /\ rq = NoRequest
    /\ cl = NoClose
    /\ ind = NoIndicators
    /\ QuotaIdle

NextIndicators == IND_Compute

SpecIndicators == InitIndicators /\ [][NextIndicators]_vars

\* ============================ quota.py ============================
\* tracker calls the trading thread makes, calls and datapoints counted
MaxTrackerOps == 3
MaxHistPoints == 2

\* where a thread is inside `with self.lock:`
TraderInside == trd.pc \in {"add", "headers", "week", "read_win", "read_week", "read_hdr"}
ReporterInside == rpt.pc \in {"read_win", "read_week", "read_hdr"}

\* slip: the lock is taken whoever holds it
LockAvailable_mut(holder) == TRUE

\* quota.py:93, 105, 110  `with self.lock:` enters only when the lock is free
LockAvailable(holder) == holder = "free"

QT_Frame ==
    /\ UNCHANGED <<envVars, tmVars, mainVars, sizeVars, bookVars, stratVars, clockVars, amendVars>>
    /\ UNCHANGED <<cacheVars, requestVars, closeVars, indVars>>

\* the trading thread calls record_call, record_hist_points(n) or snapshot
\* (ig_client.py:80, 96, 191, 207); record_hist_points returns at once on n <= 0
TR_Call ==
    /\ QT_Frame
    /\ trd.pc = "out"
    /\ trd.done < MaxTrackerOps
    /\ \E op \in {"record_call", "record_hist_points", "snapshot"}, n \in 0..MaxHistPoints :
         trd' = [trd EXCEPT !.op = op, !.n = IF op = "record_hist_points" THEN n ELSE 0,
                            !.done = trd.done + 1,
                            !.pc = IF op = "record_hist_points" /\ n <= 0 THEN "out" ELSE "acquire"]
    /\ UNCHANGED <<qt, rpt>>

\* `with self.lock:` entered by the trading thread
TR_Acquire ==
    /\ QT_Frame
    /\ trd.pc = "acquire"
    /\ LockAvailable(qt.lock)
    /\ qt' = [qt EXCEPT !.lock = "trader"]
    /\ trd' = [trd EXCEPT !.pc = IF trd.op = "record_call" THEN "add"
                                 ELSE IF trd.op = "record_hist_points" THEN "week"
                                 ELSE "read_win"]
    /\ UNCHANGED rpt

\* quota.py:94  self.win[b].add(now), which appends and trims; the header
\* map is still the old one
TR_Add ==
    /\ QT_Frame
    /\ trd.pc = "add"
    /\ \E t \in qt.trimmed..qt.calls :
         qt' = [qt EXCEPT !.calls = qt.calls + 1, !.trimmed = t, !.dirty = TRUE]
    /\ trd' = [trd EXCEPT !.pc = "headers"]
    /\ UNCHANGED rpt

\* quota.py:95-99  the X-RateLimit-* values of the response, then the lock is left
TR_Headers ==
    /\ QT_Frame
    /\ trd.pc = "headers"
    /\ qt' = [qt EXCEPT !.hdr = qt.calls, !.dirty = FALSE, !.lock = "free"]
    /\ trd' = [trd EXCEPT !.pc = "out"]
    /\ UNCHANGED rpt

\* quota.py:105-106  self.week.add(time.time(), n_points), then the lock is left
TR_Week ==
    /\ QT_Frame
    /\ trd.pc = "week"
    /\ qt' = [qt EXCEPT !.week = qt.week + trd.n, !.lock = "free"]
    /\ trd' = [trd EXCEPT !.pc = "out"]
    /\ UNCHANGED rpt

\* quota.py:111-127 in the trading thread: the windows, the week, the headers
TR_Snapshot ==
    /\ QT_Frame
    /\ trd.pc \in {"read_win", "read_week", "read_hdr"}
    /\ \/ /\ trd.pc = "read_win"
          \* count_last_60s trims the window before it counts
          /\ \E t \in qt.trimmed..qt.calls :
               /\ qt' = [qt EXCEPT !.trimmed = t]
               /\ trd' = [trd EXCEPT !.pc = "read_week",
                                    !.snap = [NoSnapshot EXCEPT !.calls = qt.calls,
                                                                !.used = qt.calls - t]]
       \/ /\ trd.pc = "read_week"
          /\ trd' = [trd EXCEPT !.pc = "read_hdr", !.snap.week = qt.week]
          /\ UNCHANGED qt
       \/ /\ trd.pc = "read_hdr"
          /\ trd' = [trd EXCEPT !.pc = "out", !.snap.hdr = qt.hdr]
          /\ qt' = [qt EXCEPT !.lock = "free"]
    /\ UNCHANGED rpt

\* quota.py:139  while not (self.stop_evt and self.stop_evt.is_set())
RP_Test ==
    /\ QT_Frame
    /\ rpt.pc = "test"
    /\ rpt' = [rpt EXCEPT !.pc = IF stop_event THEN "ended" ELSE "acquire"]
    /\ UNCHANGED <<qt, trd>>

\* quota.py:140, 110  snapshot(): `with self.lock:` entered by the reporter
RP_Acquire ==
    /\ QT_Frame
    /\ rpt.pc = "acquire"
    /\ LockAvailable(qt.lock)
    /\ qt' = [qt EXCEPT !.lock = "reporter"]
    /\ rpt' = [rpt EXCEPT !.pc = "read_win"]
    /\ UNCHANGED trd

\* quota.py:111-127 in the reporter
RP_Snapshot ==
    /\ QT_Frame
    /\ rpt.pc \in {"read_win", "read_week", "read_hdr"}
    /\ \/ /\ rpt.pc = "read_win"
          \* count_last_60s trims the window before it counts
          /\ \E t \in qt.trimmed..qt.calls :
               /\ qt' = [qt EXCEPT !.trimmed = t]
               /\ rpt' = [rpt EXCEPT !.pc = "read_week",
                                    !.snap = [NoSnapshot EXCEPT !.calls = qt.calls,
                                                                !.used = qt.calls - t]]
       \/ /\ rpt.pc = "read_week"
          /\ rpt' = [rpt EXCEPT !.pc = "read_hdr", !.snap.week = qt.week]
          /\ UNCHANGED qt
       \/ /\ rpt.pc = "read_hdr"
          /\ rpt' = [rpt EXCEPT !.pc = "log", !.snap.hdr = qt.hdr]
          /\ qt' = [qt EXCEPT !.lock = "free"]
    /\ UNCHANGED trd

\* quota.py:141-150  logging.info of the snapshot, time.sleep(self.iv)
RP_Log ==
    /\ QT_Frame
    /\ rpt.pc = "log"
    /\ rpt' = [rpt EXCEPT !.pc = "test", !.logged = Min2(rpt.logged + 1, MaxTrackerOps)]
    /\ UNCHANGED <<qt, trd>>

InitQuota ==
    /\ BotIdle
    /\ CacheIdle
    /\ rq = NoRequest
    /\ cl = NoClose
    /\ ind = NoIndicators
    /\ QuotaIdle

NextQuota ==
    \/ TR_Call \/ TR_Acquire \/ TR_Add \/ TR_Headers \/ TR_Week \/ TR_Snapshot
    \/ RP_Test \/ RP_Acquire \/ RP_Snapshot \/ RP_Log
    \/ SetStop

SpecQuota == InitQuota /\ [][NextQuota]_vars

\* ======================= claims on risk.trade_manager =======================

nList == tm_calls["list_positions"]
nUpdate == tm_calls["update_position"]
nClose == tm_calls["close_position_market"]

\* C1: trade_manager calls close_position_market at most once per trade, and
\* once the call has been made (it returned or raised) the function has
\* returned: no broker call of any kind follows.
C1_AtMostOneClose ==
    [][ /\ nClose' <= 1
        /\ nClose >= 1 => (tm_pc = "done" /\ tm_calls' = tm_calls /\ tm_pc' = "done") ]_vars

\* a close instruction that raised: the deal is still open, the manager is gone
C1_Witness ==
    tm_pc = "done" /\ nClose = 1 /\ deal_id \in positions /\ tm_ret.kind = "pair"

\* C6 as stated: the breakeven+trailing amendment is issued exactly once over
\* the life of a trade, never again on later polls.
C6_AmendedOnce == nUpdate <= 1

\* C6 amended: the amendment is issued only on a poll with defined indicators
\* where the flag is false and move >= ratio x take-profit distance, and it is
\* issued on every such poll; an accepted amendment sets the flag, the flag
\* never returns to false and no amendment is issued while it is true (so at
\* most one amendment is accepted); an amendment that raised leaves the flag
\* false and is issued again on the next qualifying poll.
C6_Qualifies(bs) ==
    /\ Len(bs) > 0
    /\ latest_mid_and_spread(bs).mid # None
    /\ compute_atr_points(bs, ATR_PERIOD) # NaN
    /\ ema_of_closes(bs, EMA_PERIOD).num # NaN
    /\ 2 * (IF is_long THEN latest_mid_and_spread(bs).mid - entry_level
                       ELSE entry_level - latest_mid_and_spread(bs).mid) >= tp_pts

C6_TrailingSetOnce ==
    [][ /\ trailing_activated => (trailing_activated' /\ nUpdate' = nUpdate)
        /\ nUpdate' # nUpdate => (~trailing_activated /\ C6_Qualifies(bars))
        /\ (tm_pc = "bars" /\ tm_pc' # "bars" /\ ~trailing_activated /\ C6_Qualifies(bars'))
              => tm_pc' = "amend"
        /\ deal_id \in trailing_stops' => trailing_activated' ]_vars

\* first amendment raised, second accepted, and a third poll above the trigger
\* that sends nothing
C6_Witness ==
    /\ trailing_activated /\ nUpdate = 2 /\ nList = 3
    /\ tm_pc = "exits" /\ C6_Qualifies(bars)

\* C7: CLOSED is terminal.  Once a successful poll missed the deal, or a close
\* instruction was issued, trade_manager makes no further positions poll,
\* amendment or close call, and it never leaves the closed positions.
C7_Closed == tm_pc = "gone" \/ nClose >= 1 \/ tm_ret.kind \in {"pair", "null_pair"}

C7_ClosedIsTerminal ==
    [][ C7_Closed => /\ C7_Closed'
                     /\ nList' = nList /\ nUpdate' = nUpdate /\ nClose' = nClose
                     /\ tm_pc' \in {"gone", "done"} ]_vars

\* closed by disappearance after an earlier poll that saw the position
C7_Witness ==
    tm_pc = "done" /\ tm_ret.kind \in {"pair", "null_pair"} /\ nClose = 0 /\ nList = 2

\* C8: on a poll whose bar window is empty, whose last mid price is missing or
\* whose ATR or EMA is undefined, trade_manager sends no amendment and no
\* close, keeps the trailing flag and goes to sleep for the poll interval,
\* from where it only returns to the loop test.
C8_Undefined(bs) ==
    \/ Len(bs) = 0
    \/ latest_mid_and_spread(bs).mid = None
    \/ compute_atr_points(bs, ATR_PERIOD) = NaN
    \/ ema_of_closes(bs, EMA_PERIOD).num = NaN

C8_HoldOnUndefined ==
    [][ /\ (tm_pc = "bars" /\ tm_pc' # "bars" /\ C8_Undefined(bars'))
              => /\ tm_pc' = "sleep"
                 /\ nUpdate' = nUpdate /\ nClose' = nClose
                 /\ trailing_activated' = trailing_activated
                 /\ tm_ret' = tm_ret
        /\ (tm_pc \in {"amend", "exits"} /\ tm_pc' # tm_pc) => ~C8_Undefined(bars)
        /\ (nUpdate' # nUpdate \/ nClose' # nClose \/ trailing_activated' # trailing_activated)
              => (tm_pc \in {"amend", "exits"} /\ ~C8_Undefined(bars))
        /\ tm_pc = "sleep" => (tm_pc' \in {"sleep", "loop"} /\ tm_calls' = tm_calls
                               /\ trailing_activated' = trailing_activated) ]_vars

\* a window of three bars whose ATR is undefined (a bar without a high), held
\* while trailing is already active
C8_Witness ==
    /\ tm_pc = "sleep" /\ Len(bars) = MaxBars
    /\ latest_mid_and_spread(bars).mid # None
    /\ compute_atr_points(bars, ATR_PERIOD) = NaN
    /\ trailing_activated

\* C9: every return of trade_manager delivers a pair, two numbers or
\* (None, None), also when the loop ends because the shutdown flag is set.
C9_ReturnsPair == tm_pc = "done" => tm_ret.kind \in {"pair", "null_pair"}

\* C10: when a successful poll does not contain the deal, trade_manager returns
\* on that poll without any close or amendment, with (last_mid - entry,
\* last_mid) for a long and (entry - last_mid, last_mid) for a short, from the
\* tick fetched then, and (None, None) when the fetch failed or has no mid.
C10_Expected(bs) ==
    LET last_mid == latest_mid_and_spread(bs).mid
    IN  IF last_mid = None THEN NullPair
        ELSE [kind |-> "pair",
              move_pts |-> IF is_long THEN last_mid - entry_level ELSE entry_level - last_mid,
              exit_mid |-> last_mid]

C10_DisappearanceResult ==
    [][ tm_pc = "gone" =>
          /\ tm_pc' \in {"gone", "done"}
          /\ nList' = nList /\ nUpdate' = nUpdate /\ nClose' = nClose
          /\ tm_pc' = "done" => tm_ret' = C10_Expected(bars') ]_vars

\* a short whose position disappeared with the tick at 6: move +4
C10_Witness ==
    /\ tm_pc = "done" /\ nClose = 0 /\ ~is_long
    /\ tm_ret = Pair(entry_level - 6, 6) /\ deal_id \notin positions


\* an amendment or a close call is made in this step
C29_Acts == nUpdate' # nUpdate \/ nClose' # nClose

C30_Defined(bs) ==
    /\ Len(bs) > 0
    /\ latest_mid_and_spread(bs).mid # None
    /\ compute_atr_points(bs, ATR_PERIOD) # NaN
    /\ ema_of_closes(bs, EMA_PERIOD).num # NaN

\* the price is on the unfavourable side of the EMA: below it for a long,
\* above it for a short
C30_PriceAgainstEma(bs) ==
    LET e == ema_of_closes(bs, EMA_PERIOD)
        m == latest_mid_and_spread(bs).mid
    IN  IF is_long THEN m * e.den < e.num ELSE m * e.den > e.num

C30_AtrBelowMin(bs) == compute_atr_points(bs, ATR_PERIOD) < ATR_MIN_THRESHOLD * ATR_PERIOD

C30_SpreadAboveMax(bs) ==
    /\ latest_mid_and_spread(bs).spread # None
    /\ latest_mid_and_spread(bs).spread > SPREAD_MAX_POINTS

C30_ExitCalledFor(bs) ==
    C30_Defined(bs) /\ (C30_PriceAgainstEma(bs) \/ C30_AtrBelowMin(bs) \/ C30_SpreadAboveMax(bs))

\* ---------------------------------------------------------------------------
\* C30: trade_manager issues a close only on a poll with defined indicators
\* where the price is on the unfavourable side of the EMA, or ATR is below its
\* minimum, or the spread is above its maximum; on such a poll it does issue
\* the close, and on any other poll it issues none and polls again.
C30_CloseOnlyOnExitCondition ==
    [][ /\ nClose' # nClose => C30_ExitCalledFor(bars)
        /\ (tm_pc = "exits" /\ tm_pc' # "exits" /\ C30_ExitCalledFor(bars)) => nClose' = nClose + 1
        /\ (tm_pc = "exits" /\ tm_pc' # "exits" /\ ~C30_ExitCalledFor(bars))
              => (nClose' = nClose /\ tm_pc' = "sleep" /\ tm_ret' = tm_ret) ]_vars

\* a short closed with the price above the EMA while ATR and spread are fine
C30_Witness ==
    /\ tm_pc = "done" /\ nClose = 1 /\ ~is_long
    /\ C30_PriceAgainstEma(bars)
    /\ ~C30_AtrBelowMin(bars) /\ ~C30_SpreadAboveMax(bars)

\* a long held on a poll with the price above the EMA, ATR and spread fine
C30_HoldWitness ==
    /\ tm_pc = "sleep" /\ is_long /\ C30_Defined(bars)
    /\ ~C30_ExitCalledFor(bars) /\ nClose = 0

\* ---------------------------------------------------------------------------
\* C31: when trade_manager issues a close, it returns at once the pair of the
\* signed point-move and the mid price of the bar window of that poll, whether
\* the close request succeeded or raised.
C31_ReturnsDecisionPrice ==
    [][nClose' # nClose
         => LET m == latest_mid_and_spread(bars).mid
            IN  /\ tm_pc' = "done"
                /\ tm_ret'.kind = "pair"
                /\ tm_ret'.exit_mid = m
                /\ tm_ret'.move_pts = IF is_long THEN m - entry_level ELSE entry_level - m
                /\ bars' = bars ]_vars

\* a short whose close request raised: the deal is still open, the pair is the
\* move of the deciding poll
C31_Witness ==
    /\ tm_pc = "done" /\ nClose = 1 /\ ~is_long /\ deal_id \in positions
    /\ tm_ret.kind = "pair"
    /\ tm_ret.exit_mid = latest_mid_and_spread(bars).mid
    /\ tm_ret.move_pts = entry_level - tm_ret.exit_mid

\* ---------------------------------------------------------------------------
\* C32: every breakeven+trailing amendment trade_manager sends has, as sent
\* after rounding to two decimals, a trailing distance >= the broker's minimum
\* stop distance and a trailing step >= the configured minimum step, and a
\* stop level of entry + offset for a long, entry - offset for a short.
C32_AmendmentFloors ==
    [][nUpdate' # nUpdate
         => /\ amendment'.distance >= ig_min_stop_points
            /\ amendment'.step >= MIN_TRAIL_STEP_POINTS
            /\ amendment'.stop_level = IF is_long
                                       THEN 100 * entry_level + BREAKEVEN_OFFSET_POINTS
                                       ELSE 100 * entry_level - BREAKEVEN_OFFSET_POINTS ]_vars

\* an amendment of a short whose distance is the broker's minimum, above
\* ATR x multiplier, and whose step is above the minimum step
C32_Witness ==
    /\ tm_pc = "exits" /\ nUpdate >= 1 /\ ~is_long
    /\ amendment.distance = ig_min_stop_points
    /\ ig_min_stop_points > MIN_TRAIL_STEP_POINTS
    /\ amendment.step > MIN_TRAIL_STEP_POINTS

\* an amendment whose distance is ATR x multiplier, above the broker's minimum
C32_AtrWitness ==
    /\ tm_pc = "exits" /\ nUpdate >= 1
    /\ amendment.distance > ig_min_stop_points

\* ---------------------------------------------------------------------------
\* C34: recent_prices answers from its cache only when caching is enabled,
\* the cache holds at least num_points bars, and either the cache was fetched
\* within the current bar period, or the weekly allowance is at or below the
\* reserve and the cache is no older than PRICE_CACHE_STALE_SEC.
C34_CacheOnlyWhileUsable ==
    served.source = "cache"
        => /\ rp_cfg.enabled
           /\ served.held >= served.asked
           /\ \/ served.age < rp_cfg.period
              \/ /\ served.remaining <= HIST_RESERVE_POINTS
                 /\ served.age <= PRICE_CACHE_STALE_SEC

\* ---------------------------------------------------------------------------
\* C35: one _request sends the original request at most twice and
\* refresh-token at most once; the second send happens only after a 401
\* followed by a successful refresh; and what the second send answers is
\* returned as it is.
C35_RetryOnceAfterRefresh ==
    /\ rq.sent <= 2
    /\ rq.refreshed <= 1
    /\ rq.refreshed = 1 => rq.first = 401
    /\ rq.pc = "retry" \/ rq.sent = 2 => rq.first = 401 /\ rq.rr \in {200, 201}
    /\ rq.pc = "done" /\ rq.sent = 2 => rq.out = rq.r

\* a second 401, after a successful refresh, is what _request returns
C35_Witness ==
    /\ rq.pc = "done" /\ rq.sent = 2 /\ rq.refreshed = 1
    /\ rq.first = 401 /\ rq.rr = 200 /\ rq.out = 401

\* ---------------------------------------------------------------------------
\* C36: close_position_market tries its methods in a fixed order: the net-off
\* order (only when epic and currency are known), then DELETE, then the
\* method-override POST; it stops at the first one answered 200 or 201 and
\* returns that response's deal reference; and it raises only when every
\* method it tried failed.
C36_Order == IF cl.known THEN <<"netoff", "delete", "override">> ELSE <<"delete", "override">>

C36_CloseMethodsInOrder ==
    /\ Len(cl.tried) <= Len(C36_Order)
    /\ \A i \in 1..Len(cl.tried) : cl.tried[i].m = C36_Order[i]
    /\ \A i \in 1..(Len(cl.tried) - 1) : cl.tried[i].st \notin {200, 201}
    /\ (cl.tried # <<>> /\ cl.tried[Len(cl.tried)].st \in {200, 201})
          => /\ cl.pc = "done"
             /\ cl.out = [kind |-> "returned", ref |-> cl.tried[Len(cl.tried)].ref]
    /\ cl.out.kind = "raised" => \A i \in 1..Len(cl.tried) : cl.tried[i].st \notin {200, 201}
    /\ cl.out.kind = "returned" => cl.tried[Len(cl.tried)].st \in {200, 201}

\* the net-off order and DELETE are refused, the override is answered 201 and
\* its deal reference is returned
C36_Witness ==
    /\ cl.pc = "done" /\ cl.known /\ Len(cl.tried) = 3
    /\ cl.tried[1].st = 400 /\ cl.tried[2].st = 404 /\ cl.tried[3].st = 201
    /\ cl.out = [kind |-> "returned", ref |-> 3]

\* ---------------------------------------------------------------------------
\* C38: compute_atr_points smooths the true ranges the Wilder way: the mean of
\* the first `period` true ranges, then for each further bar
\* (previous average x (period - 1) + new true range) / period, rather than
\* the simple average of the last `period` true ranges; rsi_series smooths
\* its average gain and loss the same way.
C38_AtrIsWilder ==
    (ind.pc = "done" /\ ind.atr # NaN)
        => LET trs == true_ranges(window.prices, Len(window.prices))
           IN  REq(Rat(ind.atr, ATR_PERIOD), wilder(trs, ATR_PERIOD, Len(trs)))

\* ---------------------------------------------------------------------------
\* C37: every read and write of the tracker's counters and header map
\* (record_call, record_hist_points, snapshot) is made by the thread that
\* holds the tracker lock, and the lock is free whenever no thread is inside
\* one of these methods; the reporter never reads while an update of the
\* trading thread is half made, so the header map it logs is the one of the
\* last call it counts; the trading thread never waits for a lock
\* that nobody will release; and a step of the reporter changes nothing of
\* the trading state.
C37_LockDiscipline ==
    /\ TraderInside => qt.lock = "trader"
    /\ ReporterInside => qt.lock = "reporter"
    /\ qt.lock = "trader" => TraderInside
    /\ qt.lock = "reporter" => ReporterInside
    /\ ReporterInside => ~qt.dirty
    /\ rpt.pc = "log" => rpt.snap.hdr = rpt.snap.calls
    /\ trd.pc = "acquire" => qt.lock = "free" \/ (qt.lock = "reporter" /\ ReporterInside)

C37_TrackerUnderLock ==
    [][ /\ C37_LockDiscipline'
        /\ rpt' # rpt => UNCHANGED <<envVars, tmVars, mainVars, sizeVars, bookVars, stratVars,
                                     clockVars, amendVars, trd>> ]_vars

\* the reporter has logged a snapshot that counts two calls of the trading
\* thread, which is waiting for the lock the reporter holds again
C37_Witness ==
    /\ rpt.logged >= 1 /\ ReporterInside /\ qt.lock = "reporter"
    /\ trd.pc = "acquire" /\ qt.calls = 2 /\ qt.hdr = 2

\* ---------------------------------------------------------------------------
\* C39: a close instruction never adds exposure: when the broker has closed
\* the tracked position between the manager's positions poll and its close
\* request, the close request leaves no new position open at the broker.
C39_CloseAddsNoPosition ==
    [][nClose' # nClose => positions' \subseteq positions]_vars

\* ---------------------------------------------------------------------------
\* C40: trade_manager has no timeout of its own. With its thread running, it
\* returns once the shutdown flag is set, once a successful positions poll
\* has found the tracked deal absent, and once a poll with defined indicators
\* has met an exit condition; it returns in no other case, and from the sleep
\* it goes back to the loop test without a broker call. (The flag is followed
\* up to the last poll the bound MaxPolls allows.)
C40_PollsExhausted == tm_pc = "poll" /\ nList >= MaxPolls

C40_ReturnsOnlyOnStopGoneOrExit ==
    /\ (\/ stop_event /\ ~C40_PollsExhausted
        \/ tm_pc = "gone"
        \/ tm_pc = "exits" /\ C30_ExitCalledFor(bars)) ~> (tm_pc = "done")
    /\ [][ /\ (tm_pc # "done" /\ tm_pc' = "done")
               => \/ tm_pc = "loop" /\ stop_event
                  \/ tm_pc = "gone"
                  \/ tm_pc = "exits" /\ C30_ExitCalledFor(bars)
           /\ tm_pc = "sleep" /\ tm_pc' # tm_pc => tm_pc' = "loop" /\ tm_calls' = tm_calls ]_vars

\* the manager has polled to the bound without a reason to return, and
\* returns None on the shutdown flag
C40_Witness ==
    /\ tm_pc = "done" /\ tm_ret = BareNone /\ stop_event
    /\ nList = MaxPolls /\ nClose = 0 /\ deal_id \in positions

\* ============================ claims on main ============================

\* C2: at every moment at most one position opened by the bot is open at the
\* broker, whatever the broker answers (a close request that fails included).
C2_OnePositionAtATime == Cardinality(positions) <= 1

\* C3: the consecutive-loss guard.  Once the number of completed trades in a
\* row without profit (P&L <= 0) has reached MAX_CONSECUTIVE_LOSSES, the
\* orchestrator submits no further order.
C3_ConsecutiveLossGuard == m_pc = "open" => consec_losses < MAX_CONSECUTIVE_LOSSES

\* C4: the daily-loss guard.  With the day's net P&L at or below minus the
\* daily max loss, the orchestrator submits no order.
C4_DailyLossGuard == m_pc = "open" => day_net > 0 - DAILY_MAX_LOSS_EUR

\* C5: the success stop fires exactly on the day's net P&L, losses included:
\* no order once day net >= daily target, and the loop does not end for
\* success while day net is below the target.
C5_SuccessStopOnDayNet ==
    /\ m_pc = "open" => day_net < DAILY_TARGET_EUR
    /\ (m_pc = "tidy" /\ ~stop_event) => day_net >= DAILY_TARGET_EUR

C12_CloseAllOnEveryExit == m_pc = "exit" => tidy.called

\* ---------------------------------------------------------------------------
\* C13: a failure of a broker call made by the entry gate, by the trade
\* manager or by the sizing refresh never ends the run: the step is followed
\* by another step of the loop, not by the shutdown.
C13_TransientFailureNeverEnds ==
    [][(m_pc \in {"gate", "trade_manager", "resize"} /\ ~stop_event')
           => m_pc' \notin {"finally", "exit"}]_vars

\* ---------------------------------------------------------------------------
\* C14: a failed submission (the call raised, the status is not one of
\* ACCEPTED / OPENED / FILLED, or there is no deal id) is not fatal and is not
\* handed to the trade manager: realized_approx is unchanged and main() goes
\* back to the test of its loop.
C14_Failed(c) ==
    \/ c.raised
    \/ c.status \notin {"ACCEPTED", "OPENED", "FILLED"}
    \/ c.deal = None

C14_FailedSubmissionRetried ==
    [][(m_pc = "open" /\ m_pc' # "open" /\ ~stop_event' /\ C14_Failed(confirm'))
           => /\ m_pc' = "while"
              /\ tm_pc' = "idle"
              /\ deal_id' = deal_id
              /\ realized_approx' = realized_approx]_vars

\* an accepted status without a deal id: back at the loop test, no manager
C14_Witness ==
    /\ m_pc = "while"
    /\ ~confirm.raised /\ confirm.status = "ACCEPTED" /\ confirm.deal = None
    /\ tm_pc = "idle"

\* ---------------------------------------------------------------------------
\* C15: every trade whose order was accepted is appended to the ledger once
\* before the next order: the step of main() that accounts the finished trade
\* writes exactly one row.
C15_TradeRecordedOnce ==
    [][(m_pc = "account" /\ m_pc' = "resize") => ledger'.rows = ledger.rows + 1]_vars

\* ---------------------------------------------------------------------------
\* C33: for every feasible sizing result, the size is at most the broker's
\* maximum deal size, and the margin and the exposure implied by that size
\* are at most the margin cap and the exposure cap.
C33_SizeWithinCaps ==
    (sz_pc = "done" /\ sizing.ok)
        => /\ sizing.size <= details.max_size
           /\ RLe(estimate_margin(details.price, Hundredths(sizing.size),
                                  details.contract_size, first_margin_rate(details)),
                  margin_cap(capital))
           /\ RLe(estimate_exposure(details.price, Hundredths(sizing.size),
                                    details.contract_size),
                  exposure_cap(capital))

\* ---------------------------------------------------------------------------
\* C20: day_net() is balance - day_start_balance, and a trade recorded on a
\* day later than the ledger's day moves the day to that day and resets
\* day_start_balance to the balance seen at that trade (before or after its
\* P&L is added).
C20_AnchorResetOnNewDay ==
    [][ledger'.rows = ledger.rows + 1
          => /\ Ledger_day_net(ledger') = ledger'.balance - ledger'.day_start_balance
             /\ today > ledger.day
                  => /\ ledger'.day = today
                     /\ ledger'.day_start_balance \in {ledger.balance, ledger'.balance}]_vars

\* ---------------------------------------------------------------------------
\* C16: main() never submits an order while the margin of the broker's
\* minimum deal size exceeds the budget (max_margin_eur).
C16_MinSizeOverBudget(det) ==
    det.price * det.contract_size * det.min_size * det.margin_pct > MAX_MARGIN_EUR * 10000

C16_NoOrderWhenInfeasible == m_pc = "open" => ~C16_MinSizeOverBudget(details)

\* ---------------------------------------------------------------------------
\* C17: whenever the margin or the exposure of the minimum deal size exceeds
\* its cap (working capital x margin utilization, working capital x effective
\* leverage), compute_size_and_distances returns infeasible with size 0,
\* take-profit distance 0 and stop distance 0.
C17_MarginOverCap(det, cap) ==
    det.price * det.contract_size * det.min_size * det.margin_pct
        > cap.working_capital * cap.margin_utilization_pct * 100
C17_ExposureOverCap(det, cap) ==
    det.price * det.contract_size * det.min_size
        > cap.working_capital * cap.effective_leverage * 100

C17_InfeasibleOverCap ==
    (sz_pc = "done" /\ (C17_MarginOverCap(details, capital) \/ C17_ExposureOverCap(details, capital)))
        => /\ ~sizing.ok
           /\ sizing.size = 0 /\ sizing.limit_distance = 0 /\ sizing.stop_distance = 0

\* the exposure alone is over its cap
C17_Witness ==
    /\ sz_pc = "done"
    /\ C17_ExposureOverCap(details, capital) /\ ~C17_MarginOverCap(details, capital)
    /\ ~sizing.ok /\ sizing.size = 0

\* ---------------------------------------------------------------------------
\* C18: a feasible result has stop distance >= take-profit distance >= the
\* broker's minimum distance, and size >= the broker's minimum deal size.
C18_FeasibleResultOrdered ==
    (sz_pc = "done" /\ sizing.ok)
        => /\ sizing.stop_distance >= sizing.limit_distance
           /\ sizing.limit_distance >= details.min_distance
           /\ sizing.size >= details.min_size

\* a feasible result above the broker's minimum size and distance
C18_Witness ==
    /\ sz_pc = "done" /\ sizing.ok
    /\ sizing.size > details.min_size
    /\ sizing.limit_distance > details.min_distance
    /\ sizing.stop_distance > sizing.limit_distance

\* ---------------------------------------------------------------------------
\* C19 as stated: per-pip value 1, one pip = 1 point, target 1: a feasible
\* result has the broker's minimum deal size, and the take-profit distance
\* is the larger of target / size and the broker's minimum distance.
C19_Scenario == details.pip_value = 1 /\ details.points_per_pip = 1 /\ PER_TRADE_TARGET_EUR = 1

C19_MinimumSizeChosen ==
    (sz_pc = "done" /\ sizing.ok /\ C19_Scenario)
        => /\ sizing.size = details.min_size
           /\ sizing.limit_distance = Max2(10000 \div details.min_size, details.min_distance)

\* the largest size the caps and the broker's maximum allow
C19_Affordable(det, cap) ==
    RMin(RMin(Rat(cap.working_capital * cap.margin_utilization_pct,
                  det.price * det.contract_size * det.margin_pct),
              Rat(cap.working_capital * cap.effective_leverage,
                  det.price * det.contract_size)),
         Rat(det.max_size, 100))

\* r, a number of hundredths, is x rounded to two decimals
C19_Rounds(r, x) == 2 * Abs(r * x.d - 100 * x.n) <= x.d

\* C19 (amended): in that scenario a feasible result has the largest
\* affordable size (the smallest of the margin-cap size, the exposure-cap
\* size and the broker's maximum size), which is at least the minimum deal
\* size, and the take-profit distance is the larger of target / size (1 / size
\* points) and the broker's minimum distance, both rounded to two decimals.
C19_AffordableSizeChosen ==
    (sz_pc = "done" /\ sizing.ok /\ C19_Scenario)
        => LET a == C19_Affordable(details, capital)
           IN  /\ C19_Rounds(sizing.size, a)
               /\ sizing.size >= details.min_size
               /\ C19_Rounds(sizing.limit_distance,
                             RMax(Rat(details.min_distance, 100), RDiv(Rat(1, 1), a)))

\* a feasible result in the scenario with more than the minimum deal size
C19_Witness ==
    /\ sz_pc = "done" /\ sizing.ok /\ C19_Scenario
    /\ sizing.size > details.min_size
    /\ sizing.limit_distance > details.min_distance
\* ---------------------------------------------------------------------------
\* C21: after a crash at any point of record_trade and a restart, the balance
\* the ledger loads is the starting balance plus the sum of the P&L of the
\* rows that are in the trade log.
C21_Durability ==
    [][(proc = "down" /\ proc' = "up")
          => ledger'.balance = START_BALANCE_DEFAULT + csv_sum']_vars

\* ---------------------------------------------------------------------------
\* C22: in every state of the ledger, over record_trade calls, restarts and
\* day changes, the balance is the starting balance plus the sum of the P&L of
\* all recorded trades.
C22_BalanceConserved == ledger.balance = START_BALANCE_DEFAULT + csv_sum

\* trades recorded on one day, the ledger loaded again on a later day
C22_Witness ==
    /\ ledger.rows >= 2
    /\ csv_sum # 0
    /\ ledger.day > 1
    /\ ledger.day_start_balance # START_BALANCE_DEFAULT

\* ---------------------------------------------------------------------------
\* C23: loading a state.json that cannot be read never raises: the ledger
\* comes up with balance = starting balance, day = today and
\* day_start_balance = balance.
C23_CorruptStateReset ==
    [][(L_Restart /\ ~state_json.readable)
          => /\ proc' = "up"
             /\ ledger'.balance = START_BALANCE_DEFAULT
             /\ ledger'.day = today
             /\ ledger'.day_start_balance = ledger'.balance]_vars

\* the ledger is up on the defaults although rows with P&L are in the log
C23_Witness ==
    /\ proc = "up"
    /\ ~state_json.readable
    /\ ledger.balance = START_BALANCE_DEFAULT
    /\ ledger.day_start_balance = START_BALANCE_DEFAULT
    /\ ledger.day = today
    /\ csv_sum # 0

\* ============================ claims on the strategies ============================

\* the bars of a window that have a close, a high and a low price
C24_Usable(bs) ==
    Cardinality({ i \in 1..Len(bs) :
                    \A key \in {"closePrice", "highPrice", "lowPrice"} : bar_mid(bs[i], key) # None })

\* trend period + indicator period (+ buffer)
C24_Needed(s) ==
    IF s = "moving_average" THEN MA_TREND + MA_SLOW + 1
    ELSE IF s = "rsi" THEN MA_TREND + RSI_PERIOD + 1
    ELSE MA_TREND + STO_K_PERIOD + STO_D_PERIOD

\* ---------------------------------------------------------------------------
\* C24: a trend-gated strategy (moving average, stochastic, RSI) given fewer
\* usable bars than its trend period + indicator period (+ buffer) returns
\* no-signal, whatever the bars hold.
C24_NoSignalOnShortLookback ==
    (/\ strat \in {"moving_average", "stochastic", "rsi"}
     /\ window.ok
     /\ C24_Usable(window.prices) < C24_Needed(strat))
        => signal = "none"

\* the window is long enough but one of its bars is unusable, and the trend
\* average alone could be computed
C24_Witness ==
    /\ strat = "moving_average"
    /\ window.ok
    /\ Len(window.prices) >= C24_Needed(strat)
    /\ C24_Usable(window.prices) = C24_Needed(strat) - 1
    /\ signal = "none"

\* the close of a bar: its mid, else the middle of bid and ask, else None
C25_Close(bar) ==
    LET cp == bar.closePrice
    IN  IF cp.mid # None THEN cp.mid
        ELSE IF cp.bid # None /\ cp.ask # None THEN (cp.bid + cp.ask) \div 2
        ELSE None

C25_TwoCloses ==
    /\ window.ok
    /\ Len(window.prices) >= 2
    /\ C25_Close(window.prices[Len(window.prices)]) # None
    /\ C25_Close(window.prices[Len(window.prices) - 1]) # None

\* ---------------------------------------------------------------------------
\* C25: momentum_direction returns BUY when the last close is not below the
\* previous close and SELL otherwise; with fewer than two bars, a close
\* without a price or a failed fetch it returns BUY; it never returns
\* no-signal and never raises.
C25_MomentumDirection ==
    strat = "micro_momentum"
        => signal = IF C25_TwoCloses
                    THEN IF C25_Close(window.prices[Len(window.prices)])
                              >= C25_Close(window.prices[Len(window.prices) - 1])
                         THEN "BUY" ELSE "SELL"
                    ELSE "BUY"

\* two equal closes
C25_Witness ==
    /\ strat = "micro_momentum"
    /\ C25_TwoCloses
    /\ C25_Close(window.prices[Len(window.prices)])
         = C25_Close(window.prices[Len(window.prices) - 1])
    /\ signal = "BUY"

\* period * the average of the `period` closes that end `back` bars before the last
C26_Sum(c, period, back) ==
    SumSeq(SubSeq(c, Len(c) - back - period + 1, Len(c) - back))

\* all six averages are defined
C26_Defined(c) == Len(c) >= MA_FAST + 1 /\ Len(c) >= MA_SLOW + 1 /\ Len(c) >= MA_TREND + 1

C26_CrossUp(c) ==
    /\ C26_Defined(c)
    /\ C26_Sum(c, MA_FAST, 1) * MA_SLOW <= C26_Sum(c, MA_SLOW, 1) * MA_FAST
    /\ C26_Sum(c, MA_FAST, 0) * MA_SLOW > C26_Sum(c, MA_SLOW, 0) * MA_FAST
    /\ C26_Sum(c, MA_TREND, 0) > C26_Sum(c, MA_TREND, 1)

C26_CrossDown(c) ==
    /\ C26_Defined(c)
    /\ C26_Sum(c, MA_FAST, 1) * MA_SLOW >= C26_Sum(c, MA_SLOW, 1) * MA_FAST
    /\ C26_Sum(c, MA_FAST, 0) * MA_SLOW < C26_Sum(c, MA_SLOW, 0) * MA_FAST
    /\ C26_Sum(c, MA_TREND, 0) < C26_Sum(c, MA_TREND, 1)

\* ---------------------------------------------------------------------------
\* C26: ma_direction returns BUY only on the bar where the fast average
\* crosses above the slow one (fast <= slow on the previous bar, fast > slow
\* now) while the trend average is rising, SELL only on the mirrored cross
\* while it is falling, and no-signal otherwise; with the lookback of C24
\* available, such a cross does give BUY or SELL.
C26_SignalOnlyOnCross ==
    (strat = "moving_average" /\ window.ok)
        => LET c == Closes(extract_ohlc(window.prices))
           IN  /\ signal \in {"BUY", "SELL", "none"}
               /\ signal = "BUY" => C26_CrossUp(c)
               /\ signal = "SELL" => C26_CrossDown(c)
               /\ (Len(c) >= C24_Needed("moving_average") /\ C26_CrossUp(c)) => signal = "BUY"
               /\ (Len(c) >= C24_Needed("moving_average") /\ C26_CrossDown(c)) => signal = "SELL"

\* the fast average is above the slow one on both bars, the trend rises: no signal
C26_SeparationWitness ==
    /\ strat = "moving_average"
    /\ window.ok
    /\ LET c == Closes(extract_ohlc(window.prices))
       IN  /\ Len(c) >= C24_Needed("moving_average")
           /\ C26_Sum(c, MA_FAST, 1) * MA_SLOW > C26_Sum(c, MA_SLOW, 1) * MA_FAST
           /\ C26_Sum(c, MA_FAST, 0) * MA_SLOW > C26_Sum(c, MA_SLOW, 0) * MA_FAST
           /\ C26_Sum(c, MA_TREND, 0) > C26_Sum(c, MA_TREND, 1)
    /\ signal = "none"

\* a cross up on the last bar under a rising trend average
C26_Witness ==
    /\ strat = "moving_average"
    /\ window.ok
    /\ C26_CrossUp(Closes(extract_ohlc(window.prices)))
    /\ signal = "BUY"

\* ============================ claims on the entry of a trade ============================

\* ---------------------------------------------------------------------------
\* C27: main() submits an order only while is_within_sessions holds for the
\* current time.
C27_NoOrderOutsideSessions ==
    [][(m_pc = "open" /\ m_pc' # "open") => is_within_sessions(clock)]_vars

C28_GateFails(g) ==
    g.seen /\ (g.empty \/ g.atr_nan \/ g.no_mid \/ g.atr_low \/ g.spread_high)

\* ---------------------------------------------------------------------------
\* C28: an iteration of main() whose entry gate fails (no bars, ATR undefined,
\* no mid price, ATR below its minimum, spread above its maximum) submits no
\* order: it goes back to the loop test without an error; the direction is
\* chosen and the order submitted only behind a gate that passed.
C28_NoOrderOnFailedGate ==
    [][/\ (m_pc = "gate" /\ C28_GateFails(gate'))
            => /\ m_pc' = "while"
               /\ trade_num' = trade_num
               /\ positions' = positions
               /\ next_deal' = next_deal
       /\ m_pc' \in {"direction", "open"} => (gate'.seen /\ ~C28_GateFails(gate'))]_vars

\* after a first trade, an iteration skipped for the spread alone
C28_Witness ==
    /\ m_pc = "while"
    /\ trade_num >= 1
    /\ gate.seen
    /\ gate.spread_high
    /\ ~gate.atr_low

====
